---- MODULE Spec2Model ----
(***************************************************************************)
(* A model of the chatproxy conversational session engine: the message log *)
(* of ChatGPTClient (client.go), its transcript / error / output sinks     *)
(* (log.go), the completion engine GetCompletion (client.go), the strategy *)
(* dispatcher and the Chat read-eval loop (chat.go).                       *)
(*                                                                         *)
(* Text is modelled as a sequence of one-character strings, so that        *)
(* prefixes, cuts, concatenation and upper-casing are computed as the Go   *)
(* code computes them.                                                     *)
(***************************************************************************)
EXTENDS Naturals, Sequences, FiniteSets, TLC

VARIABLES
    chatHistory,    \* c.chatHistory: the message log, a sequence of ChatMessage
    transcript,     \* the bytes written to c.transcript
    errorStream,    \* the errors written to c.errorStream, one element per write
    output,         \* the bytes written to c.output
    requests,       \* the requests submitted to the remote completion service
    files,          \* the files written by MessageToFile: path -> content
    fixedResponse,  \* c.fixedResponse ("" is the empty sequence)
    streaming,      \* c.streaming
    pc,             \* "idle", "calling", "chat" (inside the Chat loop), "done", "panic"
    readLines,      \* the lines the Chat scanner has returned so far
    calls,          \* the direct API calls made on the client so far
    strategy,       \* the strategy GetStrategy returned last
    purpose,        \* the prompt of the most recent SetPurpose call
    reply,          \* the value returned by the last operation
    err,            \* the error returned by the last operation
    env             \* the answers of the environment the last operation consumed

vars == <<chatHistory, transcript, errorStream, output, requests, files,
          fixedResponse, streaming, pc, readLines, calls, strategy, purpose,
          reply, err, env>>

-----------------------------------------------------------------------------
(* Bounds of the model. *)

\* the number of direct API calls made on a client
MaxCalls == 3
\* the number of input lines Chat reads before a closing "exit" line
MaxLines == 2
\* the number of requests the remote service receives in one run
MaxRequests == 1
\* the length of the lines GetStrategy is classified on in SpecStrategy
MaxLineLen == 5
\* the number of chunks of a stream in SpecStream
MaxChunks == 3

-----------------------------------------------------------------------------
(* Text helpers. *)

Lower == <<"a","b","c","d","e","f","g","h","i","j","k","l","m","n","o","p","q","r","s","t","u","v","w","x","y","z">>
Upper == <<"A","B","C","D","E","F","G","H","I","J","K","L","M","N","O","P","Q","R","S","T","U","V","W","X","Y","Z">>

\* strings.ToUpper on one character
ToUpperChar(ch) ==
    IF \E i \in 1..Len(Lower) : Lower[i] = ch
    THEN Upper[CHOOSE i \in 1..Len(Lower) : Lower[i] = ch]
    ELSE ch

\* strings.ToUpper
ToUpper(s) == [i \in 1..Len(s) |-> ToUpperChar(s[i])]

\* strings.HasPrefix
HasPrefix(s, p) == Len(s) >= Len(p) /\ SubSeq(s, 1, Len(p)) = p

\* s[1:] of Go: everything after the first byte
Tail1(s) == SubSeq(s, 2, Len(s))

\* strings.Cut(s, " "): the text before and after the first space
Cut(s) ==
    IF \E i \in 1..Len(s) : s[i] = " "
    THEN LET i == CHOOSE k \in 1..Len(s) :
                      s[k] = " " /\ \A j \in 1..(k-1) : s[j] # " "
         IN [before |-> SubSeq(s, 1, i-1), after |-> SubSeq(s, i+1, Len(s)), ok |-> TRUE]
    ELSE [before |-> s, after |-> <<>>, ok |-> FALSE]

-----------------------------------------------------------------------------
(* Program constants. *)

RoleUser == <<"u","s","e","r">>
RoleBot == <<"a","s","s","i","s","t","a","n","t">>
RoleSystem == <<"s","y","s","t","e","m">>

PurposePrefix == <<"P","U","R","P","O","S","E",":"," ">>
RollbackNotice == <<"L","a","s","t"," ","m","e","s","s","a","g","e"," ","r","o","l","l","e","d"," ","b","a","c","k">>
BackingOut == <<"B","a","c","k","i","n","g"," ","o","u","t"," ","o","f"," ","t","r","a","n","s","a","c","t","i","o","n",":"," ">>
FilesReceived == <<"F","i","l","e","s"," ","r","e","c","e","i","e","v","e","d","!">>
ExitMarker == <<"*","e","x","i","t","*">>
ExitWord == <<"e","x","i","t">>
PurposeQuestion == <<"P","l","e","a","s","e"," ","d","e","s","c","r","i","b","e"," ","t","h","e"," ","p","u","r","p","o","s","e"," ","o","f"," ","t","h","i","s"," ","a","s","s","i","s","t","a","n","t",".">>
SystemPrompt == <<"S","Y","S","T","E","M",")"," ">>
UserPrompt == <<"U","S","E","R",")"," ">>
AssistantPrompt == <<"A","S","S","I","S","T","A","N","T",")"," ">>
NL == <<"\n">>

\* The first line of the QuestionPrompt constant; the constant is opaque text
\* to the program and its remaining lines are left out.
QuestionPrompt == <<"G","i","v","e","n"," ","t","h","e"," ","a","b","o","v","e"," ","t","e","x","t",","," ","g","e","n","e","r","a","t","e"," ","s","o","m","e"," ","r","e","a","d","i","n","g"," ","c","o","m","p","r","e","h","e","n","s","i","o","n"," ","q","u","e","s","t","i","o","n","s",".","\n">>

\* error values
ErrNil == "nil"
ErrEOF == "io.EOF"
ErrUnauthorized == "unauthorized. Please check your OPENAI_TOKEN env var or pass a token in explicitly"
ErrNeedFileAndPrompt == "need a file and a prompt to write a file"
ErrAPI400 == "openai.APIError 400"
ErrAPI401 == "openai.APIError 401"
ErrAPI500 == "openai.APIError 500"
ErrTransport == "transport error"
ErrStreamRead == "stream read error"
ErrLoad == "content load error"
ErrCreate == "os.Create error"

-----------------------------------------------------------------------------
(* The client as a value: the fields and sinks the operations change. *)

ChatMessage(role, content) == [Role |-> role, Content |-> content]

Client == [chatHistory |-> chatHistory, transcript |-> transcript,
           errorStream |-> errorStream, output |-> output,
           requests |-> requests, files |-> files]

\* logWithFormatting that does not upper-case the role
logWithFormatting_LowerCase(c, m) ==
    LET formatted == m.Role \o <<")", " ">> \o m.Content
    IN  IF m.Role = RoleBot \/ m.Role = RoleUser
        THEN [c EXCEPT !.transcript = @ \o formatted \o NL]
        ELSE IF m.Role = RoleSystem
        THEN [c EXCEPT !.transcript = @ \o formatted \o NL,
                       !.output = @ \o formatted \o NL]
        ELSE [c EXCEPT !.output = @ \o formatted \o NL]

\* logWithFormatting on a transcript that is rewritten by a system entry
logWithFormatting_Truncates(c, m) ==
    LET formatted == ToUpper(m.Role) \o <<")", " ">> \o m.Content
    IN  IF m.Role = RoleBot \/ m.Role = RoleUser
        THEN [c EXCEPT !.transcript = @ \o formatted \o NL]
        ELSE IF m.Role = RoleSystem
        THEN [c EXCEPT !.transcript = formatted \o NL,
                       !.output = @ \o formatted \o NL]
        ELSE [c EXCEPT !.output = @ \o formatted \o NL]

\* logWithFormatting: "<ROLE>) <content>" and a newline, to the transcript
\* for the three known roles (system messages are echoed to the output too),
\* to the output for any other role.
logWithFormatting(c, m) ==
    LET formatted == ToUpper(m.Role) \o <<")", " ">> \o m.Content
    IN  IF m.Role = RoleBot \/ m.Role = RoleUser
        THEN [c EXCEPT !.transcript = @ \o formatted \o NL]
        ELSE IF m.Role = RoleSystem
        THEN [c EXCEPT !.transcript = @ \o formatted \o NL,
                       !.output = @ \o formatted \o NL]
        ELSE [c EXCEPT !.output = @ \o formatted \o NL]

Log(c, role, message) == logWithFormatting(c, ChatMessage(role, message))

LogErr(c, e) == [c EXCEPT !.errorStream = Append(@, e)]

\* Prompt(prompts...): each prompt as a SYSTEM line, then "USER) "
Prompt(c, prompts) ==
    LET RECURSIVE SystemLines(_)
        SystemLines(ps) ==
            IF ps = <<>> THEN <<>>
            ELSE SystemPrompt \o Head(ps) \o NL \o SystemLines(Tail(ps))
    IN  [c EXCEPT !.output = @ \o SystemLines(prompts) \o UserPrompt]

\* SetPurpose that always appends the purpose message
SetPurpose_Appends(c, prompt) ==
    LET m == ChatMessage(RoleSystem, PurposePrefix \o prompt)
    IN  Log([c EXCEPT !.chatHistory = Append(@, m)], RoleSystem, m.Content)

\* SetPurpose that inserts the purpose message at the head of the log
SetPurpose_Inserts(c, prompt) ==
    LET m == ChatMessage(RoleSystem, PurposePrefix \o prompt)
    IN  Log([c EXCEPT !.chatHistory = <<m>> \o @], RoleSystem, m.Content)

SetPurpose(c, prompt) ==
    LET m == ChatMessage(RoleSystem, PurposePrefix \o prompt)
        c1 == IF Len(c.chatHistory) > 0
              THEN [c EXCEPT !.chatHistory[1] = m]
              ELSE [c EXCEPT !.chatHistory = Append(@, m)]
    IN  Log(c1, RoleSystem, m.Content)

RecordMessage(c, role, message) ==
    Log([c EXCEPT !.chatHistory = Append(@, ChatMessage(role, message))],
        role, message)

\* RollbackLastMessage that removes the oldest message instead of the newest
RollbackLastMessage_RemovesFirst(c) ==
    LET c1 == IF Len(c.chatHistory) > 1
              THEN [c EXCEPT !.chatHistory = SubSeq(@, 2, Len(@))]
              ELSE c
    IN  Log(c1, RoleSystem, RollbackNotice)

\* RollbackLastMessage whose guard is len > 0: it empties a one-message log
RollbackLastMessage_EmptiesLog(c) ==
    LET c1 == IF Len(c.chatHistory) > 0
              THEN [c EXCEPT !.chatHistory = SubSeq(@, 1, Len(@) - 1)]
              ELSE c
    IN  Log(c1, RoleSystem, RollbackNotice)

RollbackLastMessage(c) ==
    LET c1 == IF Len(c.chatHistory) > 1
              THEN [c EXCEPT !.chatHistory = SubSeq(@, 1, Len(@) - 1)]
              ELSE c
    IN  Log(c1, RoleSystem, RollbackNotice)

-----------------------------------------------------------------------------
(* The remote completion service, as the environment of GetCompletion.     *)
(* An answer is either a failure of CreateChatCompletionStream (an         *)
(* openai.APIError with an HTTP status, or any other error) or a stream: a *)
(* sequence of chunks, each a sequence of choices (the Delta.Content of    *)
(* each), ended by io.EOF or by a read error.                              *)

TokenA == <<"o">>
TokenB == <<"k">>
TooLargeMessage == <<"b","i","g">>

RemoteOK == [kind |-> "stream", status |-> 200, message |-> <<>>,
             chunks |-> << <<TokenA>>, <<TokenB>> >>, end |-> ErrEOF]
RemoteReadErr == [kind |-> "stream", status |-> 200, message |-> <<>>,
                  chunks |-> << <<TokenA>> >>, end |-> ErrStreamRead]
RemoteNoChoices == [kind |-> "stream", status |-> 200, message |-> <<>>,
                    chunks |-> << <<TokenA>>, <<>> >>, end |-> ErrEOF]
RemoteTooLarge == [kind |-> "api", status |-> 400, message |-> TooLargeMessage,
                   chunks |-> <<>>, end |-> ErrAPI400]
RemoteUnauthorized == [kind |-> "api", status |-> 401, message |-> <<>>,
                       chunks |-> <<>>, end |-> ErrAPI401]
RemoteServerError == [kind |-> "api", status |-> 500, message |-> <<>>,
                      chunks |-> <<>>, end |-> ErrAPI500]
RemoteTransport == [kind |-> "transport", status |-> 0, message |-> <<>>,
                    chunks |-> <<>>, end |-> ErrTransport]

Remotes == {RemoteOK, RemoteReadErr, RemoteNoChoices, RemoteTooLarge,
            RemoteUnauthorized, RemoteServerError, RemoteTransport}

\* The completion options a caller passes: each element r stands for
\* WithFixedResponseAPIValidate(r).
OptionLists == {<<>>, <<FilesReceived>>}

\* a request that leaves out the first message of the log
Request_SkipsFirst(messages, opts) ==
    [Model |-> "gpt-4",
     Messages |-> IF messages = <<>> THEN <<>> ELSE Tail(messages),
     Stream |-> TRUE,
     MaxTokens |-> IF opts = <<>> THEN 0 ELSE 1,
     Stop |-> IF opts = <<>> THEN <<>> ELSE <<opts[Len(opts)]>>]

\* openai.ChatCompletionRequest after the options were applied
Request(messages, opts) ==
    [Model |-> "gpt-4", Messages |-> messages, Stream |-> TRUE,
     MaxTokens |-> IF opts = <<>> THEN 0 ELSE 1,
     Stop |-> IF opts = <<>> THEN <<>> ELSE <<opts[Len(opts)]>>]

\* The receive loop of streamedResponse (echo = TRUE) and bufferedResponse
\* (echo = FALSE) from the point where `message` was accumulated and `out`
\* was written to the output. response.Choices[0] on a chunk without choices
\* is an index out of range: the goroutine panics.
RECURSIVE Receive(_, _, _, _, _)
Receive(chunks, end, message, out, echo) ==
    IF chunks = <<>>
    THEN IF end = ErrEOF
         THEN [reply |-> message, err |-> ErrNil, panic |-> FALSE,
               out |-> IF echo THEN out \o NL ELSE out]
         ELSE [reply |-> <<>>, err |-> end, panic |-> FALSE, out |-> out]
    ELSE IF Head(chunks) = <<>>
    THEN [reply |-> <<>>, err |-> ErrNil, panic |-> TRUE, out |-> out]
    ELSE LET token == Head(chunks)[1]
         IN  Receive(Tail(chunks), end, message \o token,
                     IF echo THEN out \o token ELSE out, echo)

\* the tokens of the chunks (the content of the first choice of each), joined
RECURSIVE JoinTokens(_)
JoinTokens(chunks) ==
    IF chunks = <<>> THEN <<>>
    ELSE Head(chunks)[1] \o JoinTokens(Tail(chunks))

\* streamedResponse that returns the text received so far with a read error
streamedResponse_ReturnsPartial(c, stream) ==
    LET r == Receive(stream.chunks, stream.end, <<>>, AssistantPrompt, TRUE)
    IN  [c |-> [c EXCEPT !.output = @ \o r.out],
         reply |-> IF r.err # ErrNil THEN JoinTokens(stream.chunks) ELSE r.reply,
         err |-> r.err, panic |-> r.panic]

streamedResponse(c, stream) ==
    LET r == Receive(stream.chunks, stream.end, <<>>, AssistantPrompt, TRUE)
    IN  [c |-> [c EXCEPT !.output = @ \o r.out],
         reply |-> r.reply, err |-> r.err, panic |-> r.panic]

\* bufferedResponse that assigns each token to the message instead of
\* appending it
bufferedResponse_LastToken(c, stream) ==
    LET r == Receive(stream.chunks, stream.end, <<>>, <<>>, FALSE)
    IN  [c |-> c,
         reply |-> IF r.err = ErrNil /\ ~r.panic /\ stream.chunks # <<>>
                   THEN stream.chunks[Len(stream.chunks)][1]
                   ELSE r.reply,
         err |-> r.err, panic |-> r.panic]

bufferedResponse(c, stream) ==
    LET r == Receive(stream.chunks, stream.end, <<>>, <<>>, FALSE)
    IN  [c |-> c, reply |-> r.reply, err |-> r.err, panic |-> r.panic]

\* GetCompletion that returns the 400 failure to the caller without rolling
\* back
GetCompletion_NoRollback(c, fixed, strm, opts, remote) ==
    IF fixed # <<>>
    THEN [c |-> c, reply |-> fixed, err |-> ErrNil, panic |-> FALSE]
    ELSE LET req == Request(c.chatHistory, opts)
             c1 == [c EXCEPT !.requests = Append(@, req)]
         IN  IF remote.kind # "stream"
             THEN IF remote.kind = "api" /\ remote.status = 401
                  THEN [c |-> LogErr(c1, remote.end), reply |-> <<>>,
                        err |-> ErrUnauthorized, panic |-> FALSE]
                  ELSE [c |-> c1, reply |-> <<>>, err |-> remote.end,
                        panic |-> FALSE]
             ELSE IF Len(req.Stop) > 0
             THEN [c |-> c1, reply |-> req.Stop[1], err |-> ErrNil,
                   panic |-> FALSE]
             ELSE IF strm
             THEN streamedResponse(c1, remote)
             ELSE bufferedResponse(c1, remote)

\* GetCompletion that looks at the fixed response only after the request was
\* submitted
GetCompletion_RequestFirst(c, fixed, strm, opts, remote) ==
    LET req == Request(c.chatHistory, opts)
        c1 == [c EXCEPT !.requests = Append(@, req)]
    IN  IF fixed # <<>>
        THEN [c |-> c1, reply |-> fixed, err |-> ErrNil, panic |-> FALSE]
        ELSE IF remote.kind # "stream"
        THEN IF remote.kind = "api" /\ remote.status = 400
             THEN [c |-> RollbackLastMessage(LogErr(c1, remote.end)),
                   reply |-> BackingOut \o remote.message,
                   err |-> ErrNil, panic |-> FALSE]
             ELSE IF remote.kind = "api" /\ remote.status = 401
             THEN [c |-> LogErr(c1, remote.end), reply |-> <<>>,
                   err |-> ErrUnauthorized, panic |-> FALSE]
             ELSE [c |-> c1, reply |-> <<>>, err |-> remote.end,
                   panic |-> FALSE]
        ELSE IF Len(req.Stop) > 0
        THEN [c |-> c1, reply |-> req.Stop[1], err |-> ErrNil, panic |-> FALSE]
        ELSE IF strm
        THEN streamedResponse(c1, remote)
        ELSE bufferedResponse(c1, remote)

\* GetCompletion that rolls back on an unauthorized answer as well
GetCompletion_RollbackOn401(c, fixed, strm, opts, remote) ==
    IF fixed # <<>>
    THEN [c |-> c, reply |-> fixed, err |-> ErrNil, panic |-> FALSE]
    ELSE LET req == Request(c.chatHistory, opts)
             c1 == [c EXCEPT !.requests = Append(@, req)]
         IN  IF remote.kind # "stream"
             THEN IF remote.kind = "api" /\ remote.status = 400
                  THEN [c |-> RollbackLastMessage(LogErr(c1, remote.end)),
                        reply |-> BackingOut \o remote.message,
                        err |-> ErrNil, panic |-> FALSE]
                  ELSE IF remote.kind = "api" /\ remote.status = 401
                  THEN [c |-> RollbackLastMessage(LogErr(c1, remote.end)),
                        reply |-> <<>>, err |-> ErrUnauthorized, panic |-> FALSE]
                  ELSE [c |-> c1, reply |-> <<>>, err |-> remote.end,
                        panic |-> FALSE]
             ELSE IF Len(req.Stop) > 0
             THEN [c |-> c1, reply |-> req.Stop[1], err |-> ErrNil,
                   panic |-> FALSE]
             ELSE IF strm
             THEN streamedResponse(c1, remote)
             ELSE bufferedResponse(c1, remote)

\* GetCompletion that reads the stream also when a stop sequence is set
GetCompletion_ReceivesOnValidate(c, fixed, strm, opts, remote) ==
    IF fixed # <<>>
    THEN [c |-> c, reply |-> fixed, err |-> ErrNil, panic |-> FALSE]
    ELSE LET req == Request(c.chatHistory, opts)
             c1 == [c EXCEPT !.requests = Append(@, req)]
         IN  IF remote.kind # "stream"
             THEN IF remote.kind = "api" /\ remote.status = 400
                  THEN [c |-> RollbackLastMessage(LogErr(c1, remote.end)),
                        reply |-> BackingOut \o remote.message,
                        err |-> ErrNil, panic |-> FALSE]
                  ELSE IF remote.kind = "api" /\ remote.status = 401
                  THEN [c |-> LogErr(c1, remote.end), reply |-> <<>>,
                        err |-> ErrUnauthorized, panic |-> FALSE]
                  ELSE [c |-> c1, reply |-> <<>>, err |-> remote.end,
                        panic |-> FALSE]
             ELSE IF strm
             THEN streamedResponse(c1, remote)
             ELSE bufferedResponse(c1, remote)

\* GetCompletion(opts...) of a client with the given fixedResponse and
\* streaming fields, against the answer `remote` of the service.
GetCompletion(c, fixed, strm, opts, remote) ==
    IF fixed # <<>>
    THEN [c |-> c, reply |-> fixed, err |-> ErrNil, panic |-> FALSE]
    ELSE LET req == Request(c.chatHistory, opts)
             c1 == [c EXCEPT !.requests = Append(@, req)]
         IN  IF remote.kind # "stream"
             THEN IF remote.kind = "api" /\ remote.status = 400
                  THEN [c |-> RollbackLastMessage(LogErr(c1, remote.end)),
                        reply |-> BackingOut \o remote.message,
                        err |-> ErrNil, panic |-> FALSE]
                  ELSE IF remote.kind = "api" /\ remote.status = 401
                  THEN [c |-> LogErr(c1, remote.end), reply |-> <<>>,
                        err |-> ErrUnauthorized, panic |-> FALSE]
                  ELSE [c |-> c1, reply |-> <<>>, err |-> remote.end,
                        panic |-> FALSE]
             ELSE IF Len(req.Stop) > 0
             THEN [c |-> c1, reply |-> req.Stop[1], err |-> ErrNil,
                   panic |-> FALSE]
             ELSE IF strm
             THEN streamedResponse(c1, remote)
             ELSE bufferedResponse(c1, remote)

-----------------------------------------------------------------------------
(* The content loader and the file system, as the environment of the       *)
(* strategies.                                                             *)

LoadedText == <<"-","-","f","-","-","\n","d","\n">>
LoadEcho == <<"T","o","k","e","n","s",":"," ","4"," ","-",">"," ","f","\n","E","s","t","i","m","a","t","e","d"," ","T","o","t","a","l"," ","T","o","k","e","n","s",":"," ","4","\n">>

\* what inputOutput finds: the text of the file tree (and the token counts
\* MessageFromFiles prints to the output), or an error
LoadOK == [err |-> ErrNil, msg |-> LoadedText, echo |-> LoadEcho]
LoadFail == [err |-> ErrLoad, msg |-> <<>>, echo |-> <<>>]
Loads == {LoadOK, LoadFail}

\* what os.Create answers in MessageToFile
Creates == {ErrNil, ErrCreate}

inputOutput(c, path, load) ==
    [c |-> [c EXCEPT !.output = @ \o load.echo], msg |-> load.msg, err |-> load.err]

\* MessageToFile that opens the file for appending
MessageToFile_Appends(c, content, path, create) ==
    IF create # ErrNil
    THEN [c |-> c, err |-> create]
    ELSE [c |-> [c EXCEPT !.files =
                    [p \in (DOMAIN @) \cup {path} |->
                        IF p = path
                        THEN (IF p \in DOMAIN @ THEN @[p] ELSE <<>>) \o content \o NL
                        ELSE @[p]]],
          err |-> ErrNil]

\* MessageToFile: os.Create truncates the file, Fprintln writes the content
\* and a newline
MessageToFile(c, content, path, create) ==
    IF create # ErrNil
    THEN [c |-> c, err |-> create]
    ELSE [c |-> [c EXCEPT !.files =
                    [p \in (DOMAIN @) \cup {path} |->
                        IF p = path THEN content \o NL ELSE @[p]]],
          err |-> ErrNil]

-----------------------------------------------------------------------------
(* The strategy dispatcher (chat.go). *)

NoStrategy == [kind |-> "none", input |-> <<>>]

\* GetStrategy that takes every line beginning with "exit" for an exit
GetStrategy_ExitPrefix(input) ==
    IF HasPrefix(input, <<">">>) THEN [kind |-> "FileLoad", input |-> input]
    ELSE IF HasPrefix(input, <<"<">>) THEN [kind |-> "FileWrite", input |-> input]
    ELSE IF HasPrefix(input, ExitWord) THEN [kind |-> "Exit", input |-> <<>>]
    ELSE IF HasPrefix(input, <<"?">>) THEN [kind |-> "Default", input |-> QuestionPrompt]
    ELSE [kind |-> "Default", input |-> input]

\* GetStrategy that passes a line beginning with "?" on as it is
GetStrategy_KeepsQuestion(input) ==
    IF HasPrefix(input, <<">">>) THEN [kind |-> "FileLoad", input |-> input]
    ELSE IF HasPrefix(input, <<"<">>) THEN [kind |-> "FileWrite", input |-> input]
    ELSE IF input = ExitWord THEN [kind |-> "Exit", input |-> <<>>]
    ELSE [kind |-> "Default", input |-> input]

GetStrategy(input) ==
    IF HasPrefix(input, <<">">>) THEN [kind |-> "FileLoad", input |-> input]
    ELSE IF HasPrefix(input, <<"<">>) THEN [kind |-> "FileWrite", input |-> input]
    ELSE IF input = ExitWord THEN [kind |-> "Exit", input |-> <<>>]
    ELSE IF HasPrefix(input, <<"?">>) THEN [kind |-> "Default", input |-> QuestionPrompt]
    ELSE [kind |-> "Default", input |-> input]

\* Each Execute returns the client, the error it returns, the reply it got
\* from GetCompletion and whether the goroutine panicked on the way.
Outcome(c, e, r, p) == [c |-> c, err |-> e, reply |-> r, panic |-> p]

\* FileLoad.Execute after GetCompletion returned g
FileLoadRecord(g) ==
    IF g.panic THEN Outcome(g.c, ErrNil, <<>>, TRUE)
    ELSE IF g.err # ErrNil
    THEN Outcome(LogErr(g.c, g.err), g.err, g.reply, FALSE)
    ELSE Outcome(RecordMessage(g.c, RoleBot, g.reply), ErrNil, g.reply, FALSE)

FileLoadExecute(c, s, fixed, strm, ev) ==
    LET in == inputOutput(c, Tail1(s.input), ev.load)
    IN  IF in.err # ErrNil
        THEN Outcome(LogErr(in.c, in.err), in.err, <<>>, FALSE)
        ELSE FileLoadRecord(GetCompletion(RecordMessage(in.c, RoleUser, in.msg),
                                          fixed, strm, <<FilesReceived>>, ev.remote))

\* FileWrite.Execute after GetCompletion returned g
FileWriteStore(g, path, create) ==
    IF g.panic THEN Outcome(g.c, ErrNil, <<>>, TRUE)
    ELSE IF g.err # ErrNil
    THEN Outcome(g.c, g.err, g.reply, FALSE)
    ELSE LET w == MessageToFile(g.c, g.reply, path, create)
         IN  Outcome(w.c, w.err, g.reply, FALSE)

FileWriteExecute(c, s, fixed, strm, ev) ==
    LET cut == Cut(Tail1(s.input))
    IN  IF ~cut.ok
        THEN Outcome(c, ErrNeedFileAndPrompt, <<>>, FALSE)
        ELSE FileWriteStore(GetCompletion(RecordMessage(c, RoleUser, cut.after),
                                          fixed, strm, <<>>, ev.remote),
                            cut.before, ev.create)

\* Default.Execute that does not record the reply
DefaultRecord_DropsReply(g) ==
    IF g.panic THEN Outcome(g.c, ErrNil, <<>>, TRUE)
    ELSE IF g.err # ErrNil
    THEN Outcome(g.c, g.err, g.reply, FALSE)
    ELSE Outcome(g.c, ErrNil, g.reply, FALSE)

\* Default.Execute after GetCompletion returned g
DefaultRecord(g) ==
    IF g.panic THEN Outcome(g.c, ErrNil, <<>>, TRUE)
    ELSE IF g.err # ErrNil
    THEN Outcome(g.c, g.err, g.reply, FALSE)
    ELSE Outcome(RecordMessage(g.c, RoleBot, g.reply), ErrNil, g.reply, FALSE)

DefaultExecute(c, s, fixed, strm, ev) ==
    DefaultRecord(GetCompletion(RecordMessage(c, RoleUser, s.input),
                                fixed, strm, <<>>, ev.remote))

\* Exit.Execute that returns no error
ExitExecute_NoEOF(c) == Outcome(Log(c, RoleUser, ExitMarker), ErrNil, <<>>, FALSE)

ExitExecute(c) == Outcome(Log(c, RoleUser, ExitMarker), ErrEOF, <<>>, FALSE)

Execute(c, s, fixed, strm, ev) ==
    IF s.kind = "FileLoad" THEN FileLoadExecute(c, s, fixed, strm, ev)
    ELSE IF s.kind = "FileWrite" THEN FileWriteExecute(c, s, fixed, strm, ev)
    ELSE IF s.kind = "Exit" THEN ExitExecute(c)
    ELSE DefaultExecute(c, s, fixed, strm, ev)

-----------------------------------------------------------------------------
(* The session driver: one iteration of the loop of Chat on one line. *)

\* Chat that dispatches a strategy for every line, the first included
Dispatch_Always(c, line) == GetStrategy(line)

\* Chat that takes a line as the purpose while the log holds at most the
\* purpose
Dispatch_WhileShort(c, line) ==
    IF Len(c.chatHistory) <= 1 THEN NoStrategy ELSE GetStrategy(line)

\* the strategy Chat dispatches for a line: none while the log is empty
Dispatch(c, line) ==
    IF Len(c.chatHistory) = 0 THEN NoStrategy ELSE GetStrategy(line)

\* a loop body that breaks on every error
AfterExecute_StopsOnError(s, o) ==
    IF o.panic THEN [o |-> o, continue |-> FALSE, strategy |-> s]
    ELSE IF o.err # ErrNil THEN [o |-> o, continue |-> FALSE, strategy |-> s]
    ELSE [o |-> [o EXCEPT !.c = Prompt(o.c, <<>>)], continue |-> TRUE,
          strategy |-> s]

\* the loop body after strategy.Execute returned o: io.EOF breaks the loop,
\* any other error is logged, and the next prompt is printed
AfterExecute(s, o) ==
    IF o.panic THEN [o |-> o, continue |-> FALSE, strategy |-> s]
    ELSE IF o.err = ErrEOF THEN [o |-> o, continue |-> FALSE, strategy |-> s]
    ELSE IF o.err # ErrNil
    THEN [o |-> [o EXCEPT !.c = Prompt(LogErr(o.c, o.err), <<>>)],
          continue |-> TRUE, strategy |-> s]
    ELSE [o |-> [o EXCEPT !.c = Prompt(o.c, <<>>)], continue |-> TRUE,
          strategy |-> s]

\* the body of the loop: the outcome, whether the loop goes on, and the
\* strategy that was dispatched
ChatIteration(c, line, fixed, strm, ev) ==
    LET s == Dispatch(c, line)
    IN  IF s = NoStrategy
        THEN [o |-> Outcome(Prompt(SetPurpose(c, line), <<>>), ErrNil, <<>>, FALSE),
              continue |-> TRUE, strategy |-> s]
        ELSE AfterExecute(s, Execute(c, s, fixed, strm, ev))

\* Chat() of examples.go, the CLI entry point: the exit code, given the
\* error of the client construction; client.Chat() returns nothing
ChatCommand(newErr) == IF newErr # ErrNil THEN 1 ELSE 0

-----------------------------------------------------------------------------
(* The inputs the actions draw from. *)

FixedText == <<"R">>
Prompts == {<<"a">>, <<"b">>}
MessageText == <<"m">>
Roles == {RoleUser, RoleBot, RoleSystem, <<"t","o","o","l">>}

LineLoad == <<">","f">>
LineWrite == <<"<","f"," ","q">>
LineWriteNoPrompt == <<"<","f">>
LineOverwrite == <<"<","g"," ","q">>
LineQuestion == <<"?","q">>
LinePlain == <<"h","i">>
LineExitSpace == <<"e","x","i","t"," ">>
Lines == {LineLoad, LineWrite, LineWriteNoPrompt, LineOverwrite, ExitWord,
          LineQuestion, LinePlain, LineExitSpace}

\* the file system before the session: a file g exists, a file f does not
OldContent == <<"o","l","d","\n">>
InitialFiles == [p \in {<<"g">>} |-> OldContent]

NoPurpose == <<"<none>">>
\* The answers of the environment an operation consumed; a part the
\* operation did not ask for is None.
RemoteNone == [kind |-> "none", status |-> 0, message |-> <<>>,
               chunks |-> <<>>, end |-> ErrNil]
LoadNone == [err |-> "none", msg |-> <<>>, echo |-> <<>>]
CreateNone == "none"
NoEnv == [remote |-> RemoteNone, load |-> LoadNone, create |-> CreateNone]

\* the remote answers only when no fixed response is configured
RemotesFor(fixed) == IF fixed # <<>> THEN {RemoteNone} ELSE Remotes

\* os.Create is reached only when GetCompletion returned a reply
CreatesFor(remote) ==
    IF remote \in {RemoteNone, RemoteOK, RemoteTooLarge} THEN Creates ELSE {CreateNone}

\* The answers an iteration of the Chat loop on `line` can consume.
Envs(c, line, fixed) ==
    LET s == Dispatch(c, line)
    IN  IF s.kind = "FileLoad"
        THEN {[NoEnv EXCEPT !.load = LoadFail]}
             \cup {[NoEnv EXCEPT !.load = LoadOK, !.remote = r] : r \in RemotesFor(fixed)}
        ELSE IF s.kind = "FileWrite" /\ Cut(Tail1(line)).ok
        THEN UNION {{[NoEnv EXCEPT !.remote = r, !.create = cr] : cr \in CreatesFor(r)} :
                        r \in RemotesFor(fixed)}
        ELSE IF s.kind = "Default"
        THEN {[NoEnv EXCEPT !.remote = r] : r \in RemotesFor(fixed)}
        ELSE {NoEnv}

Call(name, role, text, opts) ==
    [name |-> name, role |-> role, text |-> text, opts |-> opts]

Install(c) ==
    /\ chatHistory' = c.chatHistory
    /\ transcript' = c.transcript
    /\ errorStream' = c.errorStream
    /\ output' = c.output
    /\ requests' = c.requests
    /\ files' = c.files

-----------------------------------------------------------------------------
(* The state machine. *)

Init ==
    /\ chatHistory = <<>>
    /\ transcript = <<>>
    /\ errorStream = <<>>
    /\ output = <<>>
    /\ requests = <<>>
    /\ files = InitialFiles
    /\ fixedResponse \in {<<>>, FixedText}
    /\ streaming \in BOOLEAN
    /\ pc = "idle"
    /\ readLines = <<>>
    /\ calls = <<>>
    /\ strategy = NoStrategy
    /\ purpose = NoPurpose
    /\ reply = <<>>
    /\ err = ErrNil
    /\ env = NoEnv

\* c.SetPurpose(prompt), called on the client directly
SetPurposeCall ==
    \E prompt \in Prompts :
        /\ pc = "idle"
        /\ Len(calls) < MaxCalls
        /\ Install(SetPurpose(Client, prompt))
        /\ calls' = Append(calls, Call("SetPurpose", RoleSystem, prompt, <<>>))
        /\ purpose' = prompt
        /\ reply' = <<>>
        /\ err' = ErrNil
        /\ env' = NoEnv
        /\ UNCHANGED <<fixedResponse, streaming, pc, readLines, strategy>>

\* c.RecordMessage(role, message), called on the client directly
RecordMessageCall ==
    \E role \in Roles :
        /\ pc = "idle"
        /\ Len(calls) < MaxCalls
        /\ Install(RecordMessage(Client, role, MessageText))
        /\ calls' = Append(calls, Call("RecordMessage", role, MessageText, <<>>))
        /\ reply' = <<>>
        /\ err' = ErrNil
        /\ env' = NoEnv
        /\ UNCHANGED <<fixedResponse, streaming, pc, readLines, strategy, purpose>>

\* c.RollbackLastMessage(), called on the client directly
RollbackLastMessageCall ==
    /\ pc = "idle"
    /\ Len(calls) < MaxCalls
    /\ Install(RollbackLastMessage(Client))
    /\ calls' = Append(calls, Call("RollbackLastMessage", <<>>, <<>>, <<>>))
    /\ reply' = <<>>
    /\ err' = ErrNil
    /\ env' = NoEnv
    /\ UNCHANGED <<fixedResponse, streaming, pc, readLines, strategy, purpose>>

\* the state after a direct call of GetCompletion that returned g
GetCompletionResult(opts, remote, g) ==
    /\ Len(g.c.requests) <= MaxRequests
    /\ Install(g.c)
    /\ calls' = Append(calls, Call("GetCompletion", <<>>, <<>>, opts))
    /\ reply' = g.reply
    /\ err' = g.err
    /\ env' = [NoEnv EXCEPT !.remote = remote]
    /\ pc' = IF g.panic THEN "panic" ELSE pc
    /\ UNCHANGED <<fixedResponse, streaming, readLines, strategy, purpose>>

\* c.GetCompletion(opts...), called on the client directly
GetCompletionCall ==
    \E opts \in OptionLists, remote \in RemotesFor(fixedResponse) :
        /\ pc = "idle"
        /\ Len(calls) < MaxCalls
        /\ GetCompletionResult(opts, remote,
               GetCompletion(Client, fixedResponse, streaming, opts, remote))

\* c.Chat() up to its loop, on a freshly constructed client as in Chat() of
\* chat.go: the opening prompt
ChatStart ==
    /\ pc = "idle"
    /\ calls = <<>>
    /\ Install(Prompt(Client, <<PurposeQuestion>>))
    /\ pc' = "chat"
    /\ reply' = <<>>
    /\ err' = ErrNil
    /\ env' = NoEnv
    /\ UNCHANGED <<fixedResponse, streaming, readLines, calls, strategy, purpose>>

\* the state after an iteration of the loop on `line` that ended as `it`
ChatLineResult(line, e, it) ==
    /\ Len(it.o.c.requests) <= MaxRequests
    /\ Len(readLines) < MaxLines \/ it.strategy.kind = "Exit"
    /\ Install(it.o.c)
    /\ readLines' = Append(readLines, line)
    /\ strategy' = it.strategy
    /\ purpose' = IF it.strategy = NoStrategy THEN line ELSE purpose
    /\ reply' = it.o.reply
    /\ err' = it.o.err
    /\ env' = e
    /\ pc' = IF it.o.panic THEN "panic"
             ELSE IF it.continue THEN "chat" ELSE "done"
    /\ UNCHANGED <<fixedResponse, streaming, calls>>

\* one iteration of the loop of Chat: scan.Scan() returned a line
ChatLine ==
    \E line \in Lines :
        \E e \in Envs(Client, line, fixedResponse) :
            /\ pc = "chat"
            /\ ChatLineResult(line, e,
                   ChatIteration(Client, line, fixedResponse, streaming, e))

\* scan.Scan() returned false: the input is exhausted and Chat returns
ChatEnd ==
    /\ pc = "chat"
    /\ pc' = "done"
    /\ UNCHANGED <<chatHistory, transcript, errorStream, output, requests, files,
                   fixedResponse, streaming, readLines, calls, strategy, purpose,
                   reply, err, env>>

Next ==
    \/ SetPurposeCall
    \/ RecordMessageCall
    \/ RollbackLastMessageCall
    \/ GetCompletionCall
    \/ ChatStart
    \/ ChatLine
    \/ ChatEnd

Spec == Init /\ [][Next]_vars

-----------------------------------------------------------------------------
(* GetStrategy as a pure function: one call of c.GetStrategy(input) on a   *)
(* fresh client, for every input of at most MaxLineLen characters.        *)

Chars == {">", "<", "?", " ", "e", "x", "i", "t"}
BoundedLines == UNION {[1..n -> Chars] : n \in 0..MaxLineLen}

\* the client is about to be asked for GetStrategy(input)
InitStrategy ==
    /\ chatHistory = <<>>
    /\ transcript = <<>>
    /\ errorStream = <<>>
    /\ output = <<>>
    /\ requests = <<>>
    /\ files = InitialFiles
    /\ fixedResponse = <<>>
    /\ streaming = FALSE
    /\ pc = "calling"
    /\ readLines = <<>>
    /\ \E input \in BoundedLines :
          calls = <<Call("GetStrategy", <<>>, input, <<>>)>>
    /\ strategy = NoStrategy
    /\ purpose = NoPurpose
    /\ reply = <<>>
    /\ err = ErrNil
    /\ env = NoEnv

\* c.GetStrategy(input) returns
GetStrategyCall ==
    /\ pc = "calling"
    /\ strategy' = GetStrategy(calls[1].text)
    /\ pc' = "idle"
    /\ UNCHANGED <<chatHistory, transcript, errorStream, output, requests,
                   files, fixedResponse, streaming, calls, readLines, purpose,
                   reply, err, env>>

NextStrategy == GetStrategyCall

SpecStrategy == InitStrategy /\ [][NextStrategy]_vars

-----------------------------------------------------------------------------
(* GetCompletion on a stream: one call of c.GetCompletion() on a client    *)
(* without a fixed response, for every stream of at most MaxChunks chunks  *)
(* of one choice each, ended by io.EOF or by a read error.                 *)

StreamTokens == {<<>>, TokenA, TokenB}
StreamChunks == {<<t>> : t \in StreamTokens}
Streams ==
    {[kind |-> "stream", status |-> 200, message |-> <<>>, chunks |-> ch, end |-> e] :
        ch \in UNION {[1..n -> StreamChunks] : n \in 0..MaxChunks},
        e \in {ErrEOF, ErrStreamRead}}

\* the client is about to be asked for GetCompletion(), and the remote will
\* answer with the stream in env
InitStream ==
    /\ chatHistory = <<ChatMessage(RoleUser, MessageText)>>
    /\ transcript = <<>>
    /\ errorStream = <<>>
    /\ output = <<>>
    /\ requests = <<>>
    /\ files = InitialFiles
    /\ fixedResponse = <<>>
    /\ streaming \in BOOLEAN
    /\ pc = "calling"
    /\ readLines = <<>>
    /\ calls = <<Call("GetCompletion", <<>>, <<>>, <<>>)>>
    /\ strategy = NoStrategy
    /\ purpose = NoPurpose
    /\ reply = <<>>
    /\ err = ErrNil
    /\ \E stream \in Streams : env = [NoEnv EXCEPT !.remote = stream]

\* the state after the call returned g
StreamResult(g) ==
    /\ Install(g.c)
    /\ reply' = g.reply
    /\ err' = g.err
    /\ pc' = IF g.panic THEN "panic" ELSE "idle"
    /\ UNCHANGED <<fixedResponse, streaming, readLines, calls, strategy, purpose, env>>

\* c.GetCompletion() returns
GetCompletionStream ==
    /\ pc = "calling"
    /\ StreamResult(GetCompletion(Client, fixedResponse, streaming,
                                  calls[1].opts, env.remote))

NextStream == GetCompletionStream

SpecStream == InitStream /\ [][NextStream]_vars

-----------------------------------------------------------------------------
(* A later turn of Chat: the session has already read the purpose and one *)
(* line, and goes on.                                                      *)

\* the second line of the session so far and what the environment answered
\* to it: a message that was answered, a file that was loaded and
\* acknowledged, a write request without a prompt
EarlierTurns ==
    {[line |-> LinePlain, ev |-> [NoEnv EXCEPT !.remote = RemoteOK]],
     [line |-> LineLoad, ev |-> [NoEnv EXCEPT !.load = LoadOK, !.remote = RemoteOK]],
     [line |-> LineWriteNoPrompt, ev |-> NoEnv]}

\* Chat() on a freshly constructed client without a fixed response, after
\* the opening prompt, the purpose 'a' and one more line
InitTurn ==
    \E strm \in BOOLEAN, t \in EarlierTurns :
        \E it \in {ChatIteration(
                      ChatIteration(
                          Prompt([chatHistory |-> <<>>, transcript |-> <<>>,
                                  errorStream |-> <<>>, output |-> <<>>,
                                  requests |-> <<>>, files |-> InitialFiles],
                                 <<PurposeQuestion>>),
                          <<"a">>, <<>>, strm, NoEnv).o.c,
                      t.line, <<>>, strm, t.ev)} :
            /\ chatHistory = it.o.c.chatHistory
            /\ transcript = it.o.c.transcript
            /\ errorStream = it.o.c.errorStream
            /\ output = it.o.c.output
            /\ requests = it.o.c.requests
            /\ files = it.o.c.files
            /\ fixedResponse = <<>>
            /\ streaming = strm
            /\ pc = "chat"
            /\ readLines = << <<"a">>, t.line >>
            /\ calls = <<>>
            /\ strategy = it.strategy
            /\ purpose = <<"a">>
            /\ reply = it.o.reply
            /\ err = it.o.err
            /\ env = t.ev

\* one more iteration of the loop of Chat: scan.Scan() returned a line
ChatLineLater ==
    \E line \in Lines :
        \E e \in Envs(Client, line, fixedResponse) :
            \E it \in {ChatIteration(Client, line, fixedResponse, streaming, e)} :
                /\ pc = "chat"
                /\ Len(it.o.c.requests) <= MaxRequests + 1
                /\ Len(readLines) <= MaxLines \/ it.strategy.kind = "Exit"
                /\ Install(it.o.c)
                /\ readLines' = Append(readLines, line)
                /\ strategy' = it.strategy
                /\ purpose' = IF it.strategy = NoStrategy THEN line ELSE purpose
                /\ reply' = it.o.reply
                /\ err' = it.o.err
                /\ env' = e
                /\ pc' = IF it.o.panic THEN "panic"
                         ELSE IF it.continue THEN "chat" ELSE "done"
                /\ UNCHANGED <<fixedResponse, streaming, calls>>

SpecTurn == InitTurn /\ [][ChatLineLater \/ ChatEnd]_vars

-----------------------------------------------------------------------------
(* Chat on a given finite input: the lines the scanner will deliver are   *)
(* fixed when the session starts.                                          *)

MaxInput == 3

\* Chat() on a freshly constructed client without a fixed response, after
\* the opening prompt; calls[1].input is what c.input holds
InitInput ==
    \E strm \in BOOLEAN,
       in \in UNION {[1..k -> {LinePlain, ExitWord, LineLoad, LineWriteNoPrompt}] :
                        k \in 0..MaxInput} :
        /\ chatHistory = <<>>
        /\ transcript = <<>>
        /\ errorStream = <<>>
        /\ output = SystemPrompt \o PurposeQuestion \o NL \o UserPrompt
        /\ requests = <<>>
        /\ files = InitialFiles
        /\ fixedResponse = <<>>
        /\ streaming = strm
        /\ pc = "chat"
        /\ readLines = <<>>
        /\ calls = <<[name |-> "Chat", input |-> in]>>
        /\ strategy = NoStrategy
        /\ purpose = NoPurpose
        /\ reply = <<>>
        /\ err = ErrNil
        /\ env = NoEnv

\* scan.Scan() returns true: the next line of the input has been read
ScanReturns ==
    /\ pc = "chat"
    /\ Len(readLines) < Len(calls[1].input)
    /\ readLines' = Append(readLines, calls[1].input[Len(readLines) + 1])

\* scan.Scan() returns the next line of the input, and the body of the loop
\* runs on it
ChatScan ==
    /\ ScanReturns
    /\ \E e \in Envs(Client, calls[1].input[Len(readLines) + 1], fixedResponse) :
          \E it \in {ChatIteration(Client, calls[1].input[Len(readLines) + 1],
                                   fixedResponse, streaming, e)} :
              /\ Install(it.o.c)
              /\ strategy' = it.strategy
              /\ purpose' = IF it.strategy = NoStrategy
                            THEN calls[1].input[Len(readLines) + 1] ELSE purpose
              /\ reply' = it.o.reply
              /\ err' = it.o.err
              /\ env' = e
              /\ pc' = IF it.o.panic THEN "panic"
                       ELSE IF it.continue THEN "chat" ELSE "done"
    /\ UNCHANGED <<fixedResponse, streaming, calls>>

\* scan.Scan() returns false at the end of the input, and Chat returns
ChatEOF ==
    /\ pc = "chat"
    /\ Len(readLines) = Len(calls[1].input)
    /\ pc' = "done"
    /\ UNCHANGED <<chatHistory, transcript, errorStream, output, requests, files,
                   fixedResponse, streaming, readLines, calls, strategy, purpose,
                   reply, err, env>>

\* the loop keeps running: every scan returns, and so does every load and
\* every request that does not crash the process, so a line that is there
\* to be read is read and the end of the input is noticed
SpecInput ==
    /\ InitInput
    /\ [][ChatScan \/ ChatEOF]_vars
    /\ WF_readLines(ScanReturns)
    /\ WF_vars(ChatEOF)

-----------------------------------------------------------------------------
(* Similarities.Top on its own: the ranking of the candidates of a query. *)

MaxCandidates == 3
MaxScore == 2

\* Similarities.RelevantVectors: the candidates, each a text and its score
\* against the query, in the order of the embeddings
CandidateLists ==
    UNION {[1..k -> [PlainText : {<<"p">>, <<"q">>}, Score : 0..MaxScore]] :
              k \in 0..MaxCandidates}

\* a sort that orders by ascending score
SortedOrders_Ascending(vectors) ==
    {[i \in 1..Len(vectors) |-> vectors[f[i]]] :
        f \in {g \in [1..Len(vectors) -> 1..Len(vectors)] :
                 /\ \A i, j \in 1..Len(vectors) : g[i] = g[j] => i = j
                 /\ \A i \in 1..(Len(vectors) - 1) :
                       ~(vectors[g[i + 1]].Score < vectors[g[i]].Score)}}

\* sort.Slice with the less function Score[i] > Score[j]: the sort is not
\* stable, so every rearrangement in which no later candidate has a greater
\* score than its predecessor is a possible outcome
SortedOrders(vectors) ==
    {[i \in 1..Len(vectors) |-> vectors[f[i]]] :
        f \in {g \in [1..Len(vectors) -> 1..Len(vectors)] :
                 /\ \A i, j \in 1..Len(vectors) : g[i] = g[j] => i = j
                 /\ \A i \in 1..(Len(vectors) - 1) :
                       ~(vectors[g[i + 1]].Score > vectors[g[i]].Score)}}

\* a natural number as fmt prints it with %d
RECURSIVE Itoa(_)
Itoa(n) ==
    IF n < 10 THEN <<(<<"0","1","2","3","4","5","6","7","8","9">>)[n + 1]>>
    ELSE Itoa(n \div 10) \o Itoa(n % 10)

\* the loop of Top on candidates that sort.Slice left as `sorted`:
\* for i := 0; i < n; i++ { top = append(top, RelevantVectors[i].PlainText) };
\* an index past the candidates panics
RECURSIVE Top(_, _, _, _)
Top(sorted, i, n, top) ==
    IF ~(i < n) THEN [top |-> top, panic |-> FALSE]
    ELSE IF i >= Len(sorted) THEN [top |-> <<>>, panic |-> TRUE]
    ELSE Top(sorted, i + 1, n, Append(top, sorted[i + 1].PlainText))

\* a Similarities value and a pending call Top(n)
InitTop ==
    /\ chatHistory = <<>>
    /\ transcript = <<>>
    /\ errorStream = <<>>
    /\ output = <<>>
    /\ requests = <<>>
    /\ files = InitialFiles
    /\ fixedResponse = <<>>
    /\ streaming = FALSE
    /\ pc = "calling"
    /\ readLines = <<>>
    /\ \E vectors \in CandidateLists, n \in 0..(MaxCandidates + 1) :
          /\ calls = <<[name |-> "Top", vectors |-> vectors, n |-> n]>>
          /\ env = [RelevantVectors |-> vectors]
    /\ strategy = NoStrategy
    /\ purpose = NoPurpose
    /\ reply = <<>>
    /\ err = ErrNil

\* s.Top(n) runs: the candidates are sorted in place, their number is
\* printed, and the first n texts are returned
TopCall ==
    /\ pc = "calling"
    /\ \E sorted \in SortedOrders(env.RelevantVectors) :
          /\ env' = [env EXCEPT !.RelevantVectors = sorted]
          /\ output' = output \o Itoa(Len(sorted)) \o NL
          /\ reply' = Top(sorted, 0, calls[1].n, <<>>).top
          /\ pc' = IF Top(sorted, 0, calls[1].n, <<>>).panic THEN "panic" ELSE "idle"
    /\ UNCHANGED <<chatHistory, transcript, errorStream, requests, files,
                   fixedResponse, streaming, readLines, calls, strategy,
                   purpose, err>>

SpecTop == InitTop /\ [][TopCall]_vars

-----------------------------------------------------------------------------
(* ChatGPTClient.Chunk on its own: the grouping of a text into chunks. *)

MaxContentLen == 4
MaxChunkSize == 3

\* the texts a reader can deliver
Contents == UNION {[1..k -> {"a", "b", " ", "\n"}] : k \in 0..MaxContentLen}

\* unicode.IsSpace on the characters of the model
IsSpace(ch) == ch \in {" ", "\n"}

\* strings.TrimSpace: the space at both ends removed
RECURSIVE TrimSpace(_)
TrimSpace(t) ==
    IF t # <<>> /\ IsSpace(Head(t)) THEN TrimSpace(Tail(t))
    ELSE IF t # <<>> /\ IsSpace(t[Len(t)]) THEN TrimSpace(SubSeq(t, 1, Len(t) - 1))
    ELSE t

\* strings.Join
RECURSIVE Join(_, _)
Join(elems, sep) ==
    IF elems = <<>> THEN <<>>
    ELSE IF Len(elems) = 1 THEN elems[1]
    ELSE elems[1] \o sep \o Join(Tail(elems), sep)

\* the scanner with bufio.ScanWords: the maximal runs of non-space
\* characters, in order; `word` is the run being read
RECURSIVE ScanWords(_, _, _)
ScanWords(text, word, words) ==
    IF text = <<>>
    THEN IF word = <<>> THEN words ELSE Append(words, word)
    ELSE IF IsSpace(Head(text))
    THEN ScanWords(Tail(text), <<>>,
                   IF word = <<>> THEN words ELSE Append(words, word))
    ELSE ScanWords(Tail(text), Append(word, Head(text)), words)

\* the first loop of Chunk: every token trimmed, the empty ones skipped
RECURSIVE KeepChunks(_)
KeepChunks(tokens) ==
    IF tokens = <<>> THEN <<>>
    ELSE IF Len(TrimSpace(Head(tokens))) = 0 THEN KeepChunks(Tail(tokens))
    ELSE <<TrimSpace(Head(tokens))>> \o KeepChunks(Tail(tokens))

\* the second loop of Chunk: for i := 0; i < len(chunks); i += chunkSize
RECURSIVE GroupLoop(_, _, _, _)
GroupLoop(chunks, i, chunkSize, groupedChunks) ==
    IF ~(i < Len(chunks)) THEN groupedChunks
    ELSE LET end == IF i + chunkSize > Len(chunks) THEN Len(chunks)
                    ELSE i + chunkSize
         IN  GroupLoop(chunks, i + chunkSize, chunkSize,
                       Append(groupedChunks,
                              Join(SubSeq(chunks, i + 1, end), <<" ">>)))

\* c.Chunk(contents, chunkSize), for chunkSize > 0
Chunk(contents, chunkSize) ==
    LET chunks == KeepChunks(ScanWords(contents, <<>>, <<>>))
    IN  IF Len(chunks) < chunkSize
        THEN <<Join(chunks, <<" ">>)>>
        ELSE GroupLoop(chunks, 0, chunkSize, <<>>)

\* a client and a pending call Chunk(contents, chunkSize)
InitChunk ==
    /\ chatHistory = <<>>
    /\ transcript = <<>>
    /\ errorStream = <<>>
    /\ output = <<>>
    /\ requests = <<>>
    /\ files = InitialFiles
    /\ fixedResponse = <<>>
    /\ streaming = FALSE
    /\ pc = "calling"
    /\ readLines = <<>>
    /\ \E contents \in Contents, chunkSize \in 1..MaxChunkSize :
          calls = <<[name |-> "Chunk", contents |-> contents,
                     chunkSize |-> chunkSize]>>
    /\ strategy = NoStrategy
    /\ purpose = NoPurpose
    /\ reply = <<>>
    /\ err = ErrNil
    /\ env = NoEnv

\* c.Chunk(contents, chunkSize) returns
ChunkCall ==
    /\ pc = "calling"
    /\ reply' = Chunk(calls[1].contents, calls[1].chunkSize)
    /\ pc' = "idle"
    /\ UNCHANGED <<chatHistory, transcript, errorStream, output, requests,
                   files, fixedResponse, streaming, readLines, calls,
                   strategy, purpose, err, env>>

SpecChunk == InitChunk /\ [][ChunkCall]_vars

-----------------------------------------------------------------------------
(* ChatGPTClient.MessageFromFiles on its own: the walk of a directory. *)

MaxFiles == 3

\* the directory MessageFromFiles is called on
RootDir == <<"d">>

\* the names below the root, as lists of path elements: every entry that
\* can exist, in the order filepath.Walk visits them (each directory before
\* its entries, the entries of a directory in lexical order of their names)
WalkOrder ==
    << << <<".", "g">> >>,
       << <<".", "g">>, <<"a">> >>,
       << <<".", "h">> >>,
       << <<"a">> >>,
       << <<"s">> >>,
       << <<"s">>, <<".", "h">> >>,
       << <<"s">>, <<"a">> >> >>

\* the entries that are directories; the others are regular files
DirPaths == { << <<".", "g">> >>, << <<"s">> >> }

\* the trees: at most MaxFiles regular files, each with its contents (one
\* line, or two) and whether os.Open succeeds on it
Trees ==
    UNION {[fs -> [contents : {<<"t">>, <<"x", "\n", "y">>}, readable : BOOLEAN]] :
              fs \in {x \in SUBSET ({WalkOrder[i] : i \in 1..Len(WalkOrder)} \ DirPaths) :
                         Cardinality(x) <= MaxFiles}}

\* the path of an entry, as Walk passes it to the callback
PathOf(elems) == Join(<<RootDir>> \o elems, <<"/">>)

\* filepath.Base(path)[0] == '.'
IsHidden(elems) == Head(elems[Len(elems)]) = "."

\* the entry exists in the tree: a file of it, or a directory holding one
Exists(tree, elems) ==
    \E f \in DOMAIN tree :
        Len(f) >= Len(elems) /\ SubSeq(f, 1, Len(elems)) = elems

\* the scanner of MessageFromFile: content += scanner.Text() for every
\* line, a line being delivered without its newline
RECURSIVE ScanLines(_)
ScanLines(contents) ==
    IF contents = <<>> THEN <<>>
    ELSE IF <<Head(contents)>> = NL THEN ScanLines(Tail(contents))
    ELSE <<Head(contents)>> \o ScanLines(Tail(contents))

\* guessTokens
guessTokens(input) == Len(input) \div 2

\* MessageFromFile(path) on a file that opens: "--<path>--\n<content>\n"
MessageFromFile(path, contents) ==
    <<"-", "-">> \o path \o <<"-", "-">> \o NL \o ScanLines(contents) \o NL

ErrOpen == "os.Open error"

\* filepath.Walk with the callback of MessageFromFiles, from entry i of the
\* walk on; `w` holds message, totalTokenLength, the text written to
\* c.output ("Tokens: <n> -> <path>" per file), and the directories the
\* callback answered SkipDir for
RECURSIVE WalkFrom(_, _, _)
WalkFrom(tree, i, w) ==
    IF i > Len(WalkOrder) THEN [w EXCEPT !.err = ErrNil]
    ELSE LET elems == WalkOrder[i]
         IN  IF ~Exists(tree, elems)
                \/ \E sk \in w.skipped :
                      Len(elems) > Len(sk) /\ SubSeq(elems, 1, Len(sk)) = sk
             THEN WalkFrom(tree, i + 1, w)
             ELSE IF IsHidden(elems)
             THEN IF elems \in DirPaths
                  THEN WalkFrom(tree, i + 1, [w EXCEPT !.skipped = @ \cup {elems}])
                  ELSE WalkFrom(tree, i + 1, w)
             ELSE IF elems \in DirPaths
             THEN WalkFrom(tree, i + 1, w)
             ELSE IF ~tree[elems].readable
             THEN [w EXCEPT !.err = ErrOpen]
             ELSE LET m == MessageFromFile(PathOf(elems), tree[elems].contents)
                  IN  WalkFrom(tree, i + 1,
                               [w EXCEPT !.message = @ \o m,
                                         !.total = @ + guessTokens(m),
                                         !.out = @ \o <<"T","o","k","e","n","s",":"," ">>
                                                   \o Itoa(guessTokens(m))
                                                   \o <<" ","-",">"," ">>
                                                   \o PathOf(elems) \o NL])

\* c.MessageFromFiles(RootDir) on a tree: the message, the error, and the
\* text written to c.output, which ends with "Estimated Total Tokens: <n>"
\* when there was no error
MessageFromFiles(tree) ==
    LET w == WalkFrom(tree, 1, [message |-> <<>>, total |-> 0, out |-> <<>>,
                                skipped |-> {}, err |-> ErrNil])
    IN  IF w.err # ErrNil
        THEN [message |-> <<>>, err |-> w.err, out |-> w.out]
        ELSE [message |-> w.message, err |-> ErrNil,
              out |-> w.out \o <<"E","s","t","i","m","a","t","e","d"," ",
                                 "T","o","t","a","l"," ",
                                 "T","o","k","e","n","s",":"," ">>
                            \o Itoa(w.total) \o NL]

\* a client, a tree under RootDir, and a pending call
\* c.MessageFromFiles(RootDir)
InitFiles ==
    /\ chatHistory = <<>>
    /\ transcript = <<>>
    /\ errorStream = <<>>
    /\ output = <<>>
    /\ requests = <<>>
    /\ files \in Trees
    /\ fixedResponse = <<>>
    /\ streaming = FALSE
    /\ pc = "calling"
    /\ readLines = <<>>
    /\ calls = <<[name |-> "MessageFromFiles", path |-> RootDir]>>
    /\ strategy = NoStrategy
    /\ purpose = NoPurpose
    /\ reply = <<>>
    /\ err = ErrNil
    /\ env = NoEnv

\* c.MessageFromFiles(RootDir) returns
MessageFromFilesCall ==
    /\ pc = "calling"
    /\ reply' = MessageFromFiles(files).message
    /\ err' = MessageFromFiles(files).err
    /\ output' = output \o MessageFromFiles(files).out
    /\ pc' = "idle"
    /\ UNCHANGED <<chatHistory, transcript, errorStream, requests, files,
                   fixedResponse, streaming, readLines, calls, strategy,
                   purpose, env>>

SpecFiles == InitFiles /\ [][MessageFromFilesCall]_vars

-----------------------------------------------------------------------------
(* DefaultGPTClient on its own: the construction of a client. *)

MaxOptions == 2

\* the ClientOptions a caller passes: WithToken(token),
\* WithTranscript(audit), WithFixedResponse(response), WithStreaming(true)
ClientOptions ==
    {[option |-> "WithToken", arg |-> <<"t", "1">>],
     [option |-> "WithTranscript", arg |-> <<"b", "u", "f">>],
     [option |-> "WithFixedResponse", arg |-> FixedText],
     [option |-> "WithStreaming", arg |-> TRUE]}

ClientOptionLists == UNION {[1..k -> ClientOptions] : k \in 0..MaxOptions}

\* the value of OPENAI_TOKEN when it is set
EnvToken == <<"t", "2">>

\* the directory and the file of the audit log
AuditLogDir == <<"c","h","a","t","p","r","o","x","y","/","a","u","d","i","t","_","l","o","g","s">>
AuditLogPath == AuditLogDir \o <<"/","n","o","w",".","l","o","g">>

ErrAuditLogDir == "getAuditLogDir error"
ErrNoToken == "must have OPENAI_TOKEN env var set or pass token explicitly"

\* the environment of a construction: whether OPENAI_TOKEN is set, what
\* CreateAuditLog meets (the directory cannot be made, the file cannot be
\* created, or both succeed), and the directories made so far
ConstructionEnvs ==
    [tokenSet : BOOLEAN, auditLog : {ErrAuditLogDir, ErrCreate, ErrNil},
     dirs : {{}}]

\* CreateAuditLog: os.MkdirAll of the directory, then os.Create of a file
\* named after the time; the file system after it, and its error
CreateAuditLog(fs, ev) ==
    IF ev.auditLog = ErrAuditLogDir
    THEN [files |-> fs, dirs |-> ev.dirs, file |-> <<>>, err |-> ErrAuditLogDir]
    ELSE IF ev.auditLog = ErrCreate
    THEN [files |-> fs, dirs |-> ev.dirs \cup {AuditLogDir}, file |-> <<>>,
          err |-> ErrCreate]
    ELSE [files |-> [q \in DOMAIN fs \cup {AuditLogPath} |->
                        IF q = AuditLogPath THEN <<>> ELSE fs[q]],
          dirs |-> ev.dirs \cup {AuditLogDir}, file |-> AuditLogPath,
          err |-> ErrNil]

\* for _, opt := range opts { c = opt(c) }
RECURSIVE ApplyOptions(_, _)
ApplyOptions(c, opts) ==
    IF opts = <<>> THEN c
    ELSE LET opt == Head(opts)
         IN  ApplyOptions(
                 IF opt.option = "WithToken" THEN [c EXCEPT !.client = opt.arg]
                 ELSE IF opt.option = "WithTranscript"
                 THEN [c EXCEPT !.transcript = opt.arg]
                 ELSE IF opt.option = "WithFixedResponse"
                 THEN [c EXCEPT !.fixedResponse = opt.arg]
                 ELSE [c EXCEPT !.streaming = opt.arg],
                 Tail(opts))

\* DefaultGPTClient(opts...): the audit log is created first, then the
\* client is built (client: nil is the empty token) and the options
\* applied, then the token is looked up if no option set one
DefaultGPTClient(opts, fs, ev) ==
    LET a == CreateAuditLog(fs, ev)
        c == ApplyOptions([client |-> <<>>, transcript |-> a.file,
                           fixedResponse |-> <<>>, streaming |-> FALSE], opts)
    IN  IF a.err # ErrNil
        THEN [ok |-> FALSE, c |-> c, files |-> a.files, dirs |-> a.dirs,
              err |-> a.err]
        ELSE IF c.client = <<>> /\ ~ev.tokenSet
        THEN [ok |-> FALSE, c |-> c, files |-> a.files, dirs |-> a.dirs,
              err |-> ErrNoToken]
        ELSE [ok |-> TRUE,
              c |-> IF c.client = <<>> THEN [c EXCEPT !.client = EnvToken] ELSE c,
              files |-> a.files, dirs |-> a.dirs, err |-> ErrNil]

\* no client yet, and a pending call DefaultGPTClient(opts...)
InitNew ==
    /\ chatHistory = <<>>
    /\ transcript = <<>>
    /\ errorStream = <<>>
    /\ output = <<>>
    /\ requests = <<>>
    /\ files = InitialFiles
    /\ fixedResponse = <<>>
    /\ streaming = FALSE
    /\ pc = "calling"
    /\ readLines = <<>>
    /\ \E opts \in ClientOptionLists :
          calls = <<[name |-> "DefaultGPTClient", opts |-> opts]>>
    /\ strategy = NoStrategy
    /\ purpose = NoPurpose
    /\ reply = [client |-> FALSE]
    /\ err = ErrNil
    /\ env \in ConstructionEnvs

\* DefaultGPTClient(opts...) returns
DefaultGPTClientCall ==
    /\ pc = "calling"
    /\ LET g == DefaultGPTClient(calls[1].opts, files, env)
       IN  /\ files' = g.files
           /\ env' = [env EXCEPT !.dirs = g.dirs]
           /\ err' = g.err
           /\ reply' = IF g.ok THEN [client |-> TRUE, token |-> g.c.client,
                                     transcript |-> g.c.transcript]
                       ELSE [client |-> FALSE]
           /\ fixedResponse' = IF g.ok THEN g.c.fixedResponse ELSE fixedResponse
           /\ streaming' = IF g.ok THEN g.c.streaming ELSE streaming
    /\ pc' = "idle"
    /\ UNCHANGED <<chatHistory, transcript, errorStream, output, requests,
                   readLines, calls, strategy, purpose>>

SpecNew == InitNew /\ [][DefaultGPTClientCall]_vars

-----------------------------------------------------------------------------
(* The claims. *)

LastCall == calls[Len(calls)]

\* this step is a direct call of the named operation
Called(name) == calls' # calls /\ calls'[Len(calls')].name = name

\* this step is an iteration of the Chat loop
ReadsLine == readLines' # readLines

LogOps == {"SetPurpose", "RecordMessage", "RollbackLastMessage"}

\* only SetPurpose, RecordMessage and RollbackLastMessage were called
OnlyLogOps == pc = "idle" /\ \A i \in 1..Len(calls) : calls[i].name \in LogOps

PurposeMessage(prompt) == [Role |-> RoleSystem, Content |-> PurposePrefix \o prompt]

RollbackEntry == SystemPrompt \o RollbackNotice \o NL

\* C1 as stated: after any sequence of SetPurpose, RecordMessage and
\* RollbackLastMessage calls from an empty log, a non-empty log has at
\* index 0 the system message of the most recent SetPurpose call.
C1_PurposeAlwaysAtHead ==
    (OnlyLogOps /\ Len(chatHistory) > 0) =>
        (purpose # NoPurpose /\ chatHistory[1] = PurposeMessage(purpose))

\* C1 amended: once SetPurpose has been called, a non-empty log has at
\* index 0 the system message of the most recent SetPurpose call, whatever
\* was called before and after it.
C1_PurposeAtHeadOnceSet ==
    (purpose # NoPurpose /\ Len(chatHistory) > 0) =>
        chatHistory[1] = PurposeMessage(purpose)

\* a message was recorded first, then two different purposes were set
C1_Witness ==
    /\ Len(calls) = 3
    /\ calls[1].name = "RecordMessage"
    /\ calls[2].name = "SetPurpose"
    /\ calls[3].name = "SetPurpose"
    /\ calls[2].text # calls[3].text
    /\ Len(chatHistory) = 1

\* C2: when the remote rejects the request with HTTP 400, GetCompletion
\* writes the error to the error stream, removes exactly the last message of
\* a log of more than one message, writes the rollback notice to the
\* transcript, and returns a reply and no error.
C2_TooLargeRollsBack ==
    [][(Called("GetCompletion") /\ env'.remote.kind = "api" /\ env'.remote.status = 400) =>
          /\ errorStream' = Append(errorStream, env'.remote.end)
          /\ chatHistory' = IF Len(chatHistory) > 1
                            THEN SubSeq(chatHistory, 1, Len(chatHistory) - 1)
                            ELSE chatHistory
          /\ transcript' = transcript \o RollbackEntry
          /\ err' = ErrNil
          /\ reply' = BackingOut \o env'.remote.message]_vars

\* a 400 answer to a request made on a log of two messages
C2_Witness ==
    /\ Len(calls) = 3
    /\ calls[1].name = "SetPurpose"
    /\ calls[2].name = "RecordMessage"
    /\ LastCall.name = "GetCompletion"
    /\ env.remote = RemoteTooLarge
    /\ Len(chatHistory) = 1
    /\ err = ErrNil

\* C3 as stated: after a turn of Chat in which the remote answered 401, no
\* further input line is read.
C3_NoLineAfterUnauthorized ==
    [][(pc = "chat" /\ readLines # <<>> /\ env.remote = RemoteUnauthorized) =>
          readLines' = readLines]_vars

Plain(l) ==
    /\ ~HasPrefix(l, <<">">>)
    /\ ~HasPrefix(l, <<"<">>)
    /\ ~HasPrefix(l, <<"?">>)
    /\ l # ExitWord

\* 'USER) l', 'ASSISTANT) R' for each of the lines, one entry per line
RECURSIVE C4_Turns(_, _)
C4_Turns(ls, r) ==
    IF ls = <<>> THEN <<>>
    ELSE UserPrompt \o Head(ls) \o NL \o AssistantPrompt \o r \o NL
         \o C4_Turns(Tail(ls), r)

C4_Expected(ls, r) ==
    SystemPrompt \o PurposePrefix \o Head(ls) \o NL
    \o C4_Turns(SubSeq(ls, 2, Len(ls) - 1), r)
    \o UserPrompt \o ExitMarker \o NL

C5_GetStrategyClassifies ==
    (pc = "idle" /\ calls # <<>> /\ calls[1].name = "GetStrategy") =>
        LET input == calls[1].text
        IN  strategy.kind =
                IF input # <<>> /\ input[1] = ">" THEN "FileLoad"
                ELSE IF input # <<>> /\ input[1] = "<" THEN "FileWrite"
                ELSE IF input = <<"e","x","i","t">> THEN "Exit"
                ELSE "Default"

\* GetStrategy returned for the line 'exit ' (a trailing space)
C5_Witness ==
    /\ pc = "idle"
    /\ calls # <<>>
    /\ calls[1].name = "GetStrategy"
    /\ calls[1].text = <<"e","x","i","t"," ">>
    /\ strategy.kind = "Default"

\* C6: with a fixed response configured no request ever reaches the remote,
\* and every GetCompletion call returns the fixed response and no error and
\* leaves the log and the sinks as they were, whatever options it is given.
C6_FixedResponseFirst ==
    [][fixedResponse # <<>> =>
          /\ requests' = requests
          /\ Called("GetCompletion") =>
                /\ reply' = fixedResponse
                /\ err' = ErrNil
                /\ pc' = pc
                /\ UNCHANGED <<chatHistory, transcript, errorStream, output, files>>]_vars

\* GetCompletion with the validate-only option on a log of two messages of a
\* client with a fixed response
C6_Witness ==
    /\ fixedResponse # <<>>
    /\ Len(calls) = 3
    /\ LastCall.name = "GetCompletion"
    /\ LastCall.opts # <<>>
    /\ Len(chatHistory) = 2
    /\ reply = fixedResponse

\* C7: RollbackLastMessage on a log of N > 1 messages leaves its first N-1
\* messages, in place and unchanged.
C7_RollbackRemovesLast ==
    [][(Called("RollbackLastMessage") /\ Len(chatHistory) > 1) =>
          chatHistory' = SubSeq(chatHistory, 1, Len(chatHistory) - 1)]_vars

\* a rollback of a log of two different messages
C7_Witness ==
    /\ Len(calls) = 3
    /\ calls[1].name = "RecordMessage"
    /\ calls[2].name = "RecordMessage"
    /\ calls[1].role # calls[2].role
    /\ LastCall.name = "RollbackLastMessage"
    /\ Len(chatHistory) = 1

\* C8: RollbackLastMessage on a log of at most one message leaves the log
\* as it was and still appends one rollback notice to the transcript.
C8_RollbackKeepsShortLog ==
    [][(Called("RollbackLastMessage") /\ Len(chatHistory) <= 1) =>
          /\ chatHistory' = chatHistory
          /\ transcript' = transcript \o RollbackEntry]_vars

\* two rollbacks in a row of a log that holds the purpose only
C8_Witness ==
    /\ Len(calls) = 3
    /\ calls[1].name = "SetPurpose"
    /\ calls[2].name = "RollbackLastMessage"
    /\ calls[3].name = "RollbackLastMessage"
    /\ chatHistory = <<PurposeMessage(calls[1].text)>>

\* C9: SetPurpose(t) makes element 0 the system message 'PURPOSE: ' + t; an
\* empty log gets length 1, a non-empty log keeps its length and every
\* element from index 1 on.
C9_SetPurposeOverwritesHead ==
    [][Called("SetPurpose") =>
          LET t == calls'[Len(calls')].text
          IN  /\ chatHistory'[1] = [Role |-> RoleSystem, Content |-> PurposePrefix \o t]
              /\ Len(chatHistory') = IF chatHistory = <<>> THEN 1 ELSE Len(chatHistory)
              /\ \A i \in 2..Len(chatHistory) : chatHistory'[i] = chatHistory[i]]_vars

\* SetPurpose on a log of two recorded messages
C9_Witness ==
    /\ Len(calls) = 3
    /\ calls[1].name = "RecordMessage"
    /\ calls[2].name = "RecordMessage"
    /\ LastCall.name = "SetPurpose"
    /\ Len(chatHistory) = 2
    /\ chatHistory[1] = PurposeMessage(LastCall.text)

\* C10: in Chat on a client whose log is empty, the first line read becomes
\* the purpose whatever it is: no strategy is classified or executed for
\* it, and the loop goes on.
C10_FirstLineIsPurpose ==
    [][(pc = "chat" /\ chatHistory = <<>> /\ ReadsLine) =>
          LET line == readLines'[Len(readLines')]
          IN  /\ chatHistory' = <<PurposeMessage(line)>>
              /\ transcript' = transcript \o SystemPrompt \o PurposePrefix \o line \o NL
              /\ strategy' = NoStrategy
              /\ pc' = "chat"
              /\ UNCHANGED <<requests, files, errorStream>>]_vars

\* 'exit' given as the first line: the session goes on with it as purpose
C10_Witness ==
    /\ pc = "chat"
    /\ readLines = <<ExitWord>>
    /\ chatHistory = <<PurposeMessage(ExitWord)>>

\* this step dispatches a line in the Chat loop (the log holds a purpose)
ChatTurn == pc = "chat" /\ ReadsLine /\ chatHistory # <<>>

\* the line this step of the Chat loop read
NewLine == readLines'[Len(readLines')]

NoSpace(l) == \A i \in 1..Len(l) : l[i] # " "

UserMessage(text) == [Role |-> RoleUser, Content |-> text]

BotMessage(text) == [Role |-> RoleBot, Content |-> text]

\* C11: dispatching an 'exit' line in Chat appends exactly 'USER) *exit*'
\* to the transcript, leaves the log unchanged, contacts no remote service
\* and ends the session: no line is read once Chat is done.
C11_ExitEndsSession ==
    [][/\ (ChatTurn /\ NewLine = ExitWord) =>
            /\ transcript' = transcript \o UserPrompt \o ExitMarker \o NL
            /\ chatHistory' = chatHistory
            /\ requests' = requests
            /\ pc' = "done"
       /\ pc = "done" => readLines' = readLines]_vars

\* a session of a purpose and 'exit'
C11_Witness ==
    /\ pc = "done"
    /\ Len(readLines) = 2
    /\ readLines[2] = ExitWord
    /\ strategy.kind = "Exit"
    /\ chatHistory = <<PurposeMessage(readLines[1])>>

\* C12: in Chat, a FileWrite line without a space after the path, and a
\* FileLoad line whose content cannot be loaded, write the error to the
\* error stream, leave the log and the transcript unchanged, contact no
\* remote service, and leave the loop running for the next line.
C12_InputErrorsAbandonTurn ==
    [][ChatTurn =>
          /\ (HasPrefix(NewLine, <<"<">>) /\ NoSpace(NewLine)) =>
                /\ errorStream' = Append(errorStream, ErrNeedFileAndPrompt)
                /\ UNCHANGED <<chatHistory, transcript, requests, files>>
                /\ pc' = "chat"
          /\ (HasPrefix(NewLine, <<">">>) /\ env'.load.err # ErrNil) =>
                /\ Len(errorStream') > Len(errorStream)
                /\ SubSeq(errorStream', 1, Len(errorStream)) = errorStream
                /\ \A i \in (Len(errorStream) + 1)..Len(errorStream') :
                      errorStream'[i] = env'.load.err
                /\ UNCHANGED <<chatHistory, transcript, requests, files>>
                /\ pc' = "chat"]_vars

\* a malformed FileWrite line, and the 'exit' line after it was dispatched
C12_Witness ==
    /\ pc = "done"
    /\ Len(readLines) = 3
    /\ readLines[2] = LineWriteNoPrompt
    /\ readLines[3] = ExitWord
    /\ strategy.kind = "Exit"
    /\ errorStream = <<ErrNeedFileAndPrompt>>

\* C13: every request submitted to the remote carries exactly the messages
\* of the log at the time of the GetCompletion call, in log order: the log
\* itself for a direct call, the log and the user message the turn recorded
\* for a turn of Chat.
C13_RequestCarriesLog ==
    [][requests' # requests =>
          /\ Len(requests') = Len(requests) + 1
          /\ SubSeq(requests', 1, Len(requests)) = requests
          /\ LET msgs == requests'[Len(requests')].Messages
             IN  IF Called("GetCompletion")
                 THEN msgs = chatHistory
                 ELSE /\ Len(msgs) = Len(chatHistory) + 1
                      /\ SubSeq(msgs, 1, Len(chatHistory)) = chatHistory
                      /\ msgs[Len(msgs)].Role = RoleUser]_vars

\* a request made on a log of a purpose and a recorded message
C13_Witness ==
    /\ Len(calls) = 3
    /\ calls[1].name = "SetPurpose"
    /\ calls[2].name = "RecordMessage"
    /\ LastCall.name = "GetCompletion"
    /\ env.remote = RemoteOK
    /\ Len(requests) = 1
    /\ Len(chatHistory) = 2
    /\ requests[1].Messages = chatHistory

\* C14: for every stream of tokens ended by end-of-stream GetCompletion
\* returns the tokens joined in arrival order and no error, with the
\* streaming flag on (the tokens echoed to the output) and off (no echo).
C14_ReplyIsConcatenation ==
    (pc # "calling" /\ env.remote.end = ErrEOF) =>
        /\ pc = "idle"
        /\ err = ErrNil
        /\ reply = JoinTokens(env.remote.chunks)
        /\ output = IF streaming
                    THEN AssistantPrompt \o JoinTokens(env.remote.chunks) \o NL
                    ELSE <<>>

\* three tokens received in buffered mode
C14_Witness ==
    /\ pc = "idle"
    /\ ~streaming
    /\ env.remote.end = ErrEOF
    /\ env.remote.chunks = << <<TokenA>>, <<TokenB>>, <<TokenA>> >>
    /\ reply = TokenA \o TokenB \o TokenA

\* C15: when a stream read fails with anything but end-of-stream,
\* GetCompletion returns that error and an empty reply, in streaming and in
\* buffered mode, whatever tokens were received before.
C15_ReadErrorDiscardsPartial ==
    (pc # "calling" /\ env.remote.end # ErrEOF) =>
        /\ pc = "idle"
        /\ err = env.remote.end
        /\ reply = <<>>

\* a read error after two tokens that were echoed to the output
C15_Witness ==
    /\ pc = "idle"
    /\ streaming
    /\ env.remote.end = ErrStreamRead
    /\ env.remote.chunks = << <<TokenA>>, <<TokenB>> >>
    /\ output = AssistantPrompt \o TokenA \o TokenB
    /\ err = ErrStreamRead

\* C16: when the remote answers 401, GetCompletion writes the error to the
\* error stream and returns the authorization error with an empty reply; the
\* log is unchanged and no rollback is performed or noted.
C16_UnauthorizedKeepsLog ==
    [][(Called("GetCompletion") /\ env'.remote.kind = "api" /\ env'.remote.status = 401) =>
          /\ errorStream' = Append(errorStream, env'.remote.end)
          /\ err' = ErrUnauthorized
          /\ reply' = <<>>
          /\ chatHistory' = chatHistory
          /\ transcript' = transcript]_vars

\* a 401 answer to a request made on a log of two messages
C16_Witness ==
    /\ Len(calls) = 3
    /\ calls[1].name = "SetPurpose"
    /\ calls[2].name = "RecordMessage"
    /\ LastCall.name = "GetCompletion"
    /\ env.remote = RemoteUnauthorized
    /\ err = ErrUnauthorized
    /\ Len(chatHistory) = 2

\* C17 as stated: a FileLoad turn that returns no error appends exactly two
\* messages to the log: the user message with the loaded text, then the
\* assistant message with the fixed acknowledgement, whatever the remote or
\* a configured override returned.
C17_FileLoadAcknowledges ==
    [][(ChatTurn /\ HasPrefix(NewLine, <<">">>) /\ err' = ErrNil /\ pc' # "panic") =>
          chatHistory' = chatHistory \o
              <<UserMessage(env'.load.msg), BotMessage(FilesReceived)>>]_vars

\* C18: a FileWrite turn on '<path prompt' records the text after the first
\* space as a user message and requests a full completion on the log with
\* it; on success the file at path holds the reply and a newline, whatever
\* it held before, and the reply is in neither the log nor the transcript.
C18_FileWriteStoresReply ==
    [][(ChatTurn /\ HasPrefix(NewLine, <<"<">>) /\ ~NoSpace(NewLine)) =>
          LET cut == Cut(Tail(NewLine))
              entry == UserPrompt \o cut.after \o NL
          IN  /\ HasPrefix(transcript', transcript \o entry)
              /\ fixedResponse = <<>> =>
                    /\ Len(requests') = Len(requests) + 1
                    /\ LET req == requests'[Len(requests')]
                       IN  /\ req.Messages = Append(chatHistory, UserMessage(cut.after))
                           /\ req.Stop = <<>>
                           /\ req.MaxTokens = 0
              /\ (err' = ErrNil /\ pc' # "panic" /\ env'.remote.status # 400) =>
                    /\ reply' = IF fixedResponse # <<>> THEN fixedResponse
                                ELSE JoinTokens(env'.remote.chunks)
                    /\ files' = [p \in (DOMAIN files) \cup {cut.before} |->
                                    IF p = cut.before THEN reply' \o NL ELSE files[p]]
                    /\ chatHistory' = Append(chatHistory, UserMessage(cut.after))
                    /\ transcript' = transcript \o entry]_vars

\* the reply of the remote written over a file that held other content
C18_Witness ==
    /\ Len(readLines) = 2
    /\ readLines[2] = LineOverwrite
    /\ env.remote = RemoteOK
    /\ err = ErrNil
    /\ reply = TokenA \o TokenB
    /\ files[<<"g">>] = TokenA \o TokenB \o NL
    /\ Len(chatHistory) = 2

\* C19 as stated: a Default turn whose completion returns no error appends
\* to the log the user message with the line's text and then the assistant
\* message with the reply, and to the transcript the same two entries.
C19_DefaultAppendsPair ==
    [][(ChatTurn /\ Plain(NewLine) /\ err' = ErrNil /\ pc' # "panic") =>
          /\ chatHistory' = chatHistory \o <<UserMessage(NewLine), BotMessage(reply')>>
          /\ transcript' = transcript \o UserPrompt \o NewLine \o NL
                                      \o AssistantPrompt \o reply' \o NL]_vars

\* C20: for a line beginning with '?', the user message recorded and sent
\* to the remote is the comprehension-question template, not the line.
C20_QuestionSendsTemplate ==
    [][(ChatTurn /\ HasPrefix(NewLine, <<"?">>)) =>
          /\ HasPrefix(transcript', transcript \o UserPrompt \o QuestionPrompt \o NL)
          /\ fixedResponse = <<>> =>
                /\ Len(requests') = Len(requests) + 1
                /\ requests'[Len(requests')].Messages =
                       Append(chatHistory, UserMessage(QuestionPrompt))
          /\ env'.remote.status # 400 =>
                /\ Len(chatHistory') > Len(chatHistory)
                /\ chatHistory'[Len(chatHistory) + 1] = UserMessage(QuestionPrompt)]_vars

\* the line '?q' answered by the remote
C20_Witness ==
    /\ Len(readLines) = 2
    /\ readLines[2] = LineQuestion
    /\ env.remote = RemoteOK
    /\ Len(requests) = 1
    /\ requests[1].Messages[2] = UserMessage(QuestionPrompt)
    /\ Len(chatHistory) = 3
    /\ chatHistory[2] = UserMessage(QuestionPrompt)

\* the transcript entry of a message: the upper-cased role, ') ', the
\* content and a newline
Entry(m) ==
    (IF m.Role = RoleSystem THEN SystemPrompt
     ELSE IF m.Role = RoleUser THEN UserPrompt
     ELSE AssistantPrompt) \o m.Content \o NL

\* the text `needle` occurs in the text `hay`
Occurs(needle, hay) ==
    \E i \in 0..(Len(hay) - Len(needle)) :
        SubSeq(hay, i + 1, i + Len(needle)) = needle

\* C21: each SetPurpose call, each RecordMessage call with role system,
\* user or assistant, and each RollbackLastMessage call appends exactly one
\* entry to the transcript: the upper-cased role, ') ', the content.
C21_OneEntryPerEvent ==
    [][/\ Called("SetPurpose") =>
            transcript' = transcript \o SystemPrompt \o PurposePrefix
                                     \o calls'[Len(calls')].text \o NL
       /\ (Called("RecordMessage")
           /\ calls'[Len(calls')].role \in {RoleSystem, RoleUser, RoleBot}) =>
            transcript' = transcript \o
                Entry(ChatMessage(calls'[Len(calls')].role, calls'[Len(calls')].text))
       /\ Called("RollbackLastMessage") =>
            transcript' = transcript \o SystemPrompt \o RollbackNotice \o NL]_vars

\* a purpose, an assistant message and a rollback, one entry each
C21_Witness ==
    /\ Len(calls) = 3
    /\ calls[1].name = "SetPurpose"
    /\ calls[2].name = "RecordMessage"
    /\ calls[2].role = RoleBot
    /\ calls[3].name = "RollbackLastMessage"
    /\ transcript = SystemPrompt \o PurposePrefix \o calls[1].text \o NL
                    \o AssistantPrompt \o calls[2].text \o NL
                    \o SystemPrompt \o RollbackNotice \o NL

\* C22: the transcript is append-only: for every operation the transcript
\* before it is a prefix of the transcript after it, also when the log is
\* rolled back or its purpose overwritten.
C22_TranscriptAppendOnly ==
    [][HasPrefix(transcript', transcript)]_vars

\* the purpose was overwritten and the log rolled back: three entries in
\* the transcript, one message in the log
C22_Witness ==
    /\ Len(calls) = 3
    /\ calls[1].name = "SetPurpose"
    /\ calls[2].name = "SetPurpose"
    /\ calls[1].text # calls[2].text
    /\ calls[3].name = "RollbackLastMessage"
    /\ Len(chatHistory) = 1
    /\ HasPrefix(transcript, SystemPrompt \o PurposePrefix \o calls[1].text \o NL)

\* C23 as stated: error text appears only on the error stream: a turn of
\* Chat in which an error is reported writes the text of that error neither
\* to the transcript nor to the output, and its error handling writes no
\* notice to the output.
C23_ErrorsOnlyOnErrorStream ==
    [][(ChatTurn /\ errorStream' # errorStream /\ env'.remote.message # <<>>) =>
          /\ Occurs(env'.remote.message, transcript')
                => Occurs(env'.remote.message, transcript)
          /\ Occurs(env'.remote.message, output')
                => Occurs(env'.remote.message, output)
          /\ Occurs(RollbackNotice, output') => Occurs(RollbackNotice, output)]_vars

\* C27 as stated, for the Chat entry point: it returns 1 whenever an error
\* was reported on the error stream during its run.
C27_ExitCodeReportsErrors ==
    (pc = "done" /\ calls = <<>> /\ errorStream # <<>>) => ChatCommand(ErrNil) = 1

\* C30 as stated: after a turn of Chat whose request was rejected as too
\* large, the log holds fewer messages than the rejected request carried.
C30_RollbackShrinksContext ==
    [][(ChatTurn /\ requests' # requests /\ env'.remote.status = 400) =>
          Len(chatHistory') < Len(requests'[Len(requests')].Messages)]_vars


\* the candidates of the pending or finished call Top(n), and n
TopVectors == calls[1].vectors
TopN == calls[1].n

\* C25 as stated: Top(k) with k greater than the number of candidates does
\* not panic.
C25_TopBeyondCandidatesNoPanic ==
    (calls # <<>> /\ calls[1].name = "Top" /\ TopN > Len(TopVectors)) => pc # "panic"

\* C26: Top(n) with 0 <= n <= number of candidates returns exactly n texts:
\* those of n distinct candidates, in non-increasing order of score, none of
\* which has a smaller score than a candidate that was left out.
C26_TopReturnsHighest ==
    (calls # <<>> /\ calls[1].name = "Top" /\ pc = "idle"
        /\ TopN <= Len(TopVectors)) =>
        /\ Len(reply) = TopN
        /\ \E idx \in [1..TopN -> 1..Len(TopVectors)] :
              /\ \A i, j \in 1..TopN : idx[i] = idx[j] => i = j
              /\ \A i \in 1..TopN : reply[i] = TopVectors[idx[i]].PlainText
              /\ \A i \in 1..(TopN - 1) :
                    TopVectors[idx[i]].Score >= TopVectors[idx[i + 1]].Score
              /\ \A k \in 1..Len(TopVectors) :
                    (\A i \in 1..TopN : idx[i] # k) =>
                        \A i \in 1..TopN :
                            TopVectors[idx[i]].Score >= TopVectors[k].Score

\* Top(2) of three candidates that were in ascending order of score
C26_Witness ==
    /\ calls # <<>> /\ calls[1].name = "Top" /\ pc = "idle"
    /\ Len(TopVectors) = 3
    /\ TopN = 2
    /\ TopVectors[1].Score < TopVectors[2].Score
    /\ TopVectors[2].Score < TopVectors[3].Score
    /\ TopVectors[3].PlainText # TopVectors[2].PlainText
    /\ reply = <<TopVectors[3].PlainText, TopVectors[2].PlainText>>


\* the lines of a text: the pieces between its newlines; `line` is the
\* piece being read
RECURSIVE SplitLines(_, _)
SplitLines(text, line) ==
    IF text = <<>> THEN <<line>>
    ELSE IF <<Head(text)>> = NL THEN <<line>> \o SplitLines(Tail(text), <<>>)
    ELSE SplitLines(Tail(text), Append(line, Head(text)))

\* the non-blank lines, trimmed, in input order
RECURSIVE NonBlankLines(_)
NonBlankLines(ls) ==
    IF ls = <<>> THEN <<>>
    ELSE IF TrimSpace(Head(ls)) = <<>> THEN NonBlankLines(Tail(ls))
    ELSE <<TrimSpace(Head(ls))>> \o NonBlankLines(Tail(ls))

ChunkReturned == calls # <<>> /\ calls[1].name = "Chunk" /\ pc = "idle"

\* C29 as stated: Chunk never returns an empty or whitespace-only chunk,
\* and when every line of the contents is shorter than size it returns one
\* chunk per non-blank line, in input order.
C29_ChunkPerLine ==
    ChunkReturned =>
        /\ \A i \in 1..Len(reply) : TrimSpace(reply[i]) # <<>>
        /\ (\A i \in 1..Len(SplitLines(calls[1].contents, <<>>)) :
                Len(SplitLines(calls[1].contents, <<>>)[i]) < calls[1].chunkSize)
            => reply = NonBlankLines(SplitLines(calls[1].contents, <<>>))


\* the entry is neither hidden nor under a hidden directory
Visible(elems) == \A i \in 1..Len(elems) : Head(elems[i]) # "."

\* one block '--<path>--\n<contents>\n' per visible regular file of the
\* tree, from entry i of the lexical order on
RECURSIVE Blocks(_, _)
Blocks(tree, i) ==
    IF i > Len(WalkOrder) THEN <<>>
    ELSE IF WalkOrder[i] \in DOMAIN tree /\ Visible(WalkOrder[i])
    THEN <<"-", "-">> \o PathOf(WalkOrder[i]) \o <<"-", "-">> \o NL
            \o tree[WalkOrder[i]].contents \o NL \o Blocks(tree, i + 1)
    ELSE Blocks(tree, i + 1)

FilesReturned ==
    calls # <<>> /\ calls[1].name = "MessageFromFiles" /\ pc = "idle"

\* C28 as stated: MessageFromFiles on a directory returns, when it returns
\* no error, the concatenation in lexical traversal order of one block
\* '--<path>--\n<contents>\n' per regular file that is neither hidden nor
\* under a hidden directory.
C28_BlocksOfVisibleFiles ==
    (FilesReturned /\ err = ErrNil) => reply = Blocks(files, 1)


\* the construction returned
Constructed == calls # <<>> /\ calls[1].name = "DefaultGPTClient" /\ pc = "idle"

\* no token was passed with WithToken
NoTokenPassed ==
    \A i \in 1..Len(calls[1].opts) : calls[1].opts[i].option # "WithToken"

\* C24 as stated: when no token is passed and the credential variable is
\* unset, the construction returns an error and no client, and neither the
\* audit-log file nor its directory has been created.
C24_NoStateBeforeTokenError ==
    (Constructed /\ NoTokenPassed /\ ~env.tokenSet) =>
        /\ err # ErrNil
        /\ ~reply.client
        /\ files = InitialFiles
        /\ env.dirs = {}


\* C31: the Chat loop stops on a line only when the line was exactly
\* 'exit': an error returned by a FileLoad, FileWrite or Default strategy
\* is written to the error stream and the loop goes on to read the next
\* line.
C31_OnlyExitStopsLoop ==
    [][(pc = "chat" /\ ReadsLine) =>
          /\ pc' = "done" => (NewLine = ExitWord /\ chatHistory # <<>>)
          /\ (strategy'.kind \in {"FileLoad", "FileWrite", "Default"}
              /\ err' # ErrNil /\ pc' # "panic") =>
                /\ pc' = "chat"
                /\ errorStream' # errorStream
                /\ errorStream'[Len(errorStream')] = err']_vars

\* a turn ended with a server error, and the next line was read
C31_Witness ==
    /\ Len(readLines) = 3
    /\ readLines[2] = LinePlain
    /\ errorStream = <<ErrAPI500>>
    /\ readLines[3] = ExitWord
    /\ pc = "done"

\* C32: GetCompletion changes the log only in the too-large case: on
\* success, with a fixed response, on an unauthorized answer, on any other
\* failure of the request and on a stream read error the log after the call
\* equals the log before it; the reply is not appended.
C32_LogChangesOnlyOnTooLarge ==
    [][(Called("GetCompletion") /\ env'.remote.status # 400) =>
          chatHistory' = chatHistory]_vars

\* a completion that succeeded on a log of two messages
C32_Witness ==
    /\ Len(calls) = 3
    /\ calls[1].name = "SetPurpose"
    /\ calls[2].name = "RecordMessage"
    /\ LastCall.name = "GetCompletion"
    /\ LastCall.opts = <<>>
    /\ env.remote = RemoteOK
    /\ reply = TokenA \o TokenB
    /\ chatHistory = <<PurposeMessage(calls[1].text),
                       ChatMessage(calls[2].role, calls[2].text)>>

\* C33: with the validate-only option and no fixed response, GetCompletion
\* submits the whole log with the output capped to 1 and the
\* acknowledgement as stop sequence; a too-large answer rolls back (a log of
\* more than one message loses its last), an
\* unauthorized answer is the authorization error, and when the stream
\* opens the acknowledgement is returned and nothing is read from the
\* stream or written to the output.
C33_ValidateOnly ==
    [][(Called("GetCompletion") /\ calls'[Len(calls')].opts # <<>>
        /\ fixedResponse = <<>>) =>
          /\ requests' = Append(requests,
                [Model |-> "gpt-4", Messages |-> chatHistory, Stream |-> TRUE,
                 MaxTokens |-> 1,
                 Stop |-> <<calls'[Len(calls')].opts[1]>>])
          /\ env'.remote.status = 400 =>
                /\ chatHistory' = IF Len(chatHistory) > 1
                                  THEN SubSeq(chatHistory, 1, Len(chatHistory) - 1)
                                  ELSE chatHistory
                /\ err' = ErrNil
          /\ env'.remote.status = 401 => err' = ErrUnauthorized
          /\ env'.remote.kind = "stream" =>
                /\ reply' = calls'[Len(calls')].opts[1]
                /\ err' = ErrNil
                /\ pc' = pc
                /\ output' = output]_vars

\* a validate-only completion on a stream whose chunk carries no choices
C33_Witness ==
    /\ Len(calls) = 3
    /\ LastCall.name = "GetCompletion"
    /\ LastCall.opts = <<FilesReceived>>
    /\ env.remote = RemoteNoChoices
    /\ reply = FilesReceived
    /\ Len(requests) = 1
    /\ Len(chatHistory) = 2
    /\ pc = "idle"


\* C34 as stated: when the completion of a FileWrite turn is rejected as
\* too large, the target file is neither created nor overwritten.
C34_RejectedWriteLeavesFile ==
    [][(ChatTurn /\ strategy'.kind = "FileWrite" /\ requests' # requests
        /\ env'.remote.status = 400) => files' = files]_vars


\* the request this step submitted
NewRequest == requests'[Len(requests')]

\* C35: whenever a rollback happens in a turn of Chat, the message removed
\* is the user message recorded in that turn: the rejected request carried
\* the log of before the turn and that message, and the log of before the
\* turn, the purpose at its head, is still there after the turn.
C35_RollbackRemovesTurnMessage ==
    [][(ChatTurn /\ transcript' # transcript
        /\ Occurs(RollbackEntry, SubSeq(transcript', Len(transcript) + 1,
                                        Len(transcript')))) =>
          /\ requests' # requests
          /\ NewRequest.Messages =
                Append(chatHistory, NewRequest.Messages[Len(NewRequest.Messages)])
          /\ NewRequest.Messages[Len(NewRequest.Messages)].Role = RoleUser
          /\ HasPrefix(chatHistory', chatHistory)
          /\ \A i \in (Len(chatHistory) + 1)..Len(chatHistory') :
                chatHistory'[i].Role # RoleUser
          /\ chatHistory'[1] = PurposeMessage(purpose)]_vars

\* a rejected turn after a turn that was answered: the messages of the
\* earlier turn are in the log, the message of this turn is not
C35_Witness ==
    /\ Len(readLines) = 3
    /\ readLines[2] = LinePlain
    /\ readLines[3] = LineQuestion
    /\ env.remote = RemoteTooLarge
    /\ Len(requests) = 2
    /\ Len(chatHistory) >= 3
    /\ SubSeq(chatHistory, 1, 3) = <<PurposeMessage(<<"a">>), UserMessage(LinePlain),
                                     BotMessage(TokenA \o TokenB)>>
    /\ \A i \in 1..Len(chatHistory) : chatHistory[i].Content # QuestionPrompt


\* C36: in a Chat session started on an empty log the first line, and only
\* the first, is the purpose: once a line was read the log is not empty and
\* has that purpose at its head, the transcript holds one purpose entry, and
\* every later line was dispatched to a strategy, whatever rollbacks
\* occurred.
C36_PurposeSetOnce ==
    (calls = <<>> /\ readLines # <<>>) =>
        /\ chatHistory # <<>>
        /\ chatHistory[1] = PurposeMessage(readLines[1])
        /\ purpose = readLines[1]
        /\ HasPrefix(transcript, Entry(PurposeMessage(readLines[1])))
        /\ ~Occurs(PurposePrefix,
                   SubSeq(transcript, Len(Entry(PurposeMessage(readLines[1]))) + 1,
                          Len(transcript)))
        /\ Len(readLines) > 1 => strategy # NoStrategy

\* a session whose write request was rolled back and that read a line
\* after it
C36_Witness ==
    /\ calls = <<>>
    /\ Len(readLines) = 3
    /\ readLines[2] = LineWrite
    /\ readLines[3] = ExitWord
    /\ Occurs(RollbackEntry, transcript)
    /\ chatHistory = <<PurposeMessage(readLines[1])>>
    /\ pc = "done"

\* the completion request of this turn failed otherwise than as too large
FailedRequest ==
    /\ requests' # requests
    /\ env'.remote \in {RemoteUnauthorized, RemoteServerError, RemoteTransport,
                        RemoteReadErr}

\* C37: when the completion request of a Default or FileWrite turn fails
\* with an error other than too-large, the user message recorded for the
\* turn stays in the log and in the transcript and no assistant message is
\* added.
C37_FailedTurnKeepsUserMessage ==
    [][(ChatTurn /\ strategy'.kind \in {"Default", "FileWrite"} /\ FailedRequest) =>
          /\ err' # ErrNil
          /\ chatHistory' = Append(chatHistory,
                                   NewRequest.Messages[Len(NewRequest.Messages)])
          /\ chatHistory'[Len(chatHistory')].Role = RoleUser
          /\ transcript' = transcript \o Entry(chatHistory'[Len(chatHistory')])
          /\ files' = files]_vars

\* a Default turn whose stream broke: the user message is the last of the log
C37_Witness ==
    /\ calls = <<>>
    /\ Len(readLines) = 2
    /\ readLines[2] = LinePlain
    /\ env.remote = RemoteReadErr
    /\ err = ErrStreamRead
    /\ chatHistory = <<PurposeMessage(readLines[1]), UserMessage(LinePlain)>>
    /\ pc = "chat"

\* C38 as stated: in a Chat session every error returned by a strategy is
\* written to the error stream exactly once.
C38_ErrorsLoggedOnce ==
    [][(ChatTurn /\ pc' = "chat" /\ err' # ErrNil) =>
          Cardinality({i \in (Len(errorStream) + 1)..Len(errorStream') :
                          errorStream'[i] = err'}) = 1]_vars


\* C40 as stated: receiving a stream chunk that carries no choices does
\* not crash GetCompletion, in streaming and in buffered mode.
C40_NoChoicesNoCrash ==
    (env.remote.kind = "stream"
     /\ \E i \in 1..Len(env.remote.chunks) : env.remote.chunks[i] = <<>>) =>
        pc # "panic"


\* the lines of the input up to the first 'exit' that is dispatched (the
\* first line is the purpose, whatever it says), or all of them
UpToExit(in) ==
    IF \E i \in 2..Len(in) : in[i] = ExitWord
    THEN SubSeq(in, 1, CHOOSE i \in 2..Len(in) :
                          /\ in[i] = ExitWord
                          /\ \A j \in 2..(i - 1) : in[j] # ExitWord)
    ELSE in

\* C39: on every finite input Chat terminates, unless a request crashes
\* the process: the lines are processed once each in input order, and Chat
\* ends at the first dispatched 'exit' line or at the end of the input.
C39_ChatTerminates ==
    /\ [](HasPrefix(calls[1].input, readLines))
    /\ [](pc = "done" => readLines = UpToExit(calls[1].input))
    /\ <>(pc = "done" \/ pc = "panic")

\* Chat returned at an 'exit' line with a line of the input left unread
C39_Witness ==
    /\ pc = "done"
    /\ calls # <<>> /\ calls[1].name = "Chat"
    /\ calls[1].input = <<LinePlain, ExitWord, LinePlain>>
    /\ readLines = <<LinePlain, ExitWord>>


====
